---- MODULE Spec2Model ----
(***************************************************************************)
(* Reservation-and-reconciliation ledger of the live trading engine:       *)
(* PortfolioManager (src/core/portfolio.py) and LiveEngine                 *)
(* (src/live/liveengine.py).                                               *)
(*                                                                         *)
(* Money is counted in the smallest currency unit (0.01), so the source's  *)
(* round(x, 2) is rounding to an integer; rates are fractions over RateDen.*)
(***************************************************************************)
EXTENDS Integers, FiniteSets, Sequences, TLC

\* ------------------------------------------------------------------ bounds
\* number of Order objects ever created (ids 1..MaxOrders)
MaxOrders == 2
\* number of direct PortfolioManager calls explored by SpecLedger
MaxLedgerOps == 2
\* number of Order objects created in a session that also resets, syncs and
\* loads snapshots (SpecSession)
MaxSessionOrders == 1
\* calendar days the daily-phase driver is followed over
MaxDays == 2

\* --------------------------------------------------------- inputs explored
Symbols == {"A", "B"}
\* filled prices, and the prices of orders made through the ledger directly
Prices == {1, 2}
\* requested prices of the orders the engine is given
OrderPrices == {1}
Volumes == {1, 2}
OrderIds == 1..MaxOrders

\* ------------------------------------------------ configuration (config.get)
\* account.available_cash
InitialCash == 8
\* account.commission_rate = CommissionNum / RateDen
CommissionNum == 1
\* account.stamp_duty_rate = StampDutyNum / RateDen
StampDutyNum == 1
RateDen == 4
\* account.minimum_commission_fee
minimum_commission_fee == 1

\* ------------------------------------------------------------- data types
BUY == "BUY"
SELL == "SELL"
PENDING == "PENDING"
SUBMITTED == "SUBMITTED"
PARTIAL_FILLED == "PARTIAL_FILLED"
FILLED == "FILLED"
CANCELLED == "CANCELLED"
REJECTED == "REJECTED"
OrderStatus == {PENDING, SUBMITTED, PARTIAL_FILLED, FILLED, CANCELLED, REJECTED}
TerminalStatus == {FILLED, CANCELLED, REJECTED}

\* Order(symbol, direction, price, volume): a new order is PENDING, unfilled
Order(id, symbol, direction, price, volume) ==
  [id |-> id, symbol |-> symbol, direction |-> direction, price |-> price,
   volume |-> volume, filled_price |-> 0, filled_volume |-> 0, status |-> PENDING]

\* placeholder where an operation takes no order
NoOrder == Order(0, "A", BUY, 0, 0)

\* Order.update_status(status): only the status changes
update_status(order, status) == [order EXCEPT !.status = status]

\* Order.update_status(status, filled_volume, filled_price)
update_status_filled(order, status, filled_volume, filled_price) ==
  [order EXCEPT !.status = status, !.filled_volume = filled_volume,
                !.filled_price = filled_price]

\* Position(symbol): an empty position
Position == [total_volume |-> 0, available_volume |-> 0]

\* Position.update_positon(volume, available_volume, price): the deltas of the
\* owned and of the sellable share count
update_positon(position, volume, available_volume, price) ==
  [position EXCEPT !.total_volume = @ + volume,
                   !.available_volume = @ + available_volume]

\* ---------------------------------------------------------------- helpers
Max(a, b) == IF a >= b THEN a ELSE b

\* round(n / d) for n >= 0, d > 0, ties to the even neighbour (Python's round)
RoundHalfEven(n, d) ==
  LET q == n \div d
      r == n % d
  IN  IF 2 * r < d THEN q
      ELSE IF 2 * r > d THEN q + 1
      ELSE IF q % 2 = 0 THEN q ELSE q + 1

\* total_fee = round(max(commission, minimum_commission_fee) + stamp_duty, 2)
\* with commission = trade_amount * commission_rate and
\* stamp_duty = trade_amount * stamp_duty_rate (0 when with_stamp is FALSE)
total_fee(trade_amount, with_stamp) ==
  RoundHalfEven(Max(trade_amount * CommissionNum, minimum_commission_fee * RateDen)
                + (IF with_stamp THEN trade_amount * StampDutyNum ELSE 0),
                RateDen)

\* the cash a BUY reservation debits: price * volume + fee at requested terms
total_cost(order) ==
  order.price * order.volume + total_fee(order.price * order.volume, FALSE)

Remove(f, k) == [x \in DOMAIN f \ {k} |-> f[x]]
Put(f, k, v) == [x \in DOMAIN f \cup {k} |-> IF x = k THEN v ELSE f[x]]
Empty == [x \in {} |-> 0]

\* ------------------------------------------------------- PortfolioManager
\* A portfolio is [available_cash, total_cash, positions, orders]; every
\* operation below returns [raised, portfolio].

PortfolioInit ==
  [available_cash |-> InitialCash, total_cash |-> InitialCash,
   positions |-> Empty, orders |-> Empty]

check_trade(p, order) ==
  LET trade_amount == order.price * order.volume
      cost == trade_amount + total_fee(trade_amount, order.direction # BUY)
  IN  IF order.direction = BUY
      THEN p.available_cash >= cost
      ELSE /\ order.symbol \in DOMAIN p.positions
           /\ p.positions[order.symbol].available_volume >= order.volume

\* freeze, first half: the debit of cash (BUY) or of sellable shares (SELL)
freeze_debit(p, order) ==
  IF order.direction = BUY
  THEN [raised |-> FALSE,
        portfolio |-> [p EXCEPT !.available_cash = @ - total_cost(order)]]
  ELSE IF order.symbol \notin DOMAIN p.positions
  THEN [raised |-> TRUE, portfolio |-> p]
  ELSE [raised |-> FALSE,
        portfolio |-> [p EXCEPT
           !.positions[order.symbol].available_volume = @ - order.volume]]

\* freeze, second half: a copy of the order goes into the journal
freeze_record(p, order) == [p EXCEPT !.orders = Put(@, order.id, order)]

\* mutant: a failed freeze that still leaves its journal entry behind
freeze_journaling_failed(p, order) ==
  LET debited == freeze_debit(p, order)
  IN  [raised |-> debited.raised,
       portfolio |-> freeze_record(debited.portfolio, order)]

freeze_order_locked_asset(p, order) ==
  LET debited == freeze_debit(p, order)
  IN  IF debited.raised THEN debited
      ELSE [raised |-> FALSE, portfolio |-> freeze_record(debited.portfolio, order)]

\* mutant: unfreeze that credits the trade amount without the fee
unfreeze_without_fee(p, order) ==
  LET credited ==
        IF order.direction = BUY
        THEN [p EXCEPT !.available_cash = @ + order.price * order.volume]
        ELSE IF order.symbol \in DOMAIN p.positions
        THEN [p EXCEPT !.positions[order.symbol].available_volume = @ + order.volume]
        ELSE p
  IN  [raised |-> FALSE,
       portfolio |-> [credited EXCEPT !.orders = Remove(@, order.id)]]

\* mutant: unfreeze that credits the filled instead of the requested volume
unfreeze_filled_volume(p, order) ==
  LET credited ==
        IF order.direction = BUY
        THEN [p EXCEPT !.available_cash = @ + total_cost(order)]
        ELSE IF order.symbol \in DOMAIN p.positions
        THEN [p EXCEPT !.positions[order.symbol].available_volume =
                         @ + order.filled_volume]
        ELSE p
  IN  [raised |-> FALSE,
       portfolio |-> [credited EXCEPT !.orders = Remove(@, order.id)]]

\* unfreeze, first half: the credit of cash (BUY) or of sellable shares (SELL)
unfreeze_credit(p, order) ==
  IF order.direction = BUY
  THEN [p EXCEPT !.available_cash = @ + total_cost(order)]
  ELSE IF order.symbol \in DOMAIN p.positions
  THEN [p EXCEPT !.positions[order.symbol].available_volume = @ + order.volume]
  ELSE p

\* unfreeze, second half: the order leaves the journal
unfreeze_remove(p, order) == [p EXCEPT !.orders = Remove(@, order.id)]

\* mutant: unfreeze that raises when the position or the journal entry is gone
unfreeze_raising_on_absent(p, order) ==
  IF \/ order.direction = SELL /\ order.symbol \notin DOMAIN p.positions
     \/ order.id \notin DOMAIN p.orders
  THEN [raised |-> TRUE, portfolio |-> p]
  ELSE [raised |-> FALSE,
        portfolio |-> unfreeze_remove(unfreeze_credit(p, order), order)]

unfreeze_order_locked_asset(p, order) ==
  [raised |-> FALSE,
   portfolio |-> unfreeze_remove(unfreeze_credit(p, order), order)]

\* mutant: unfreeze_all that releases the cash and forgets the shares
unfreeze_all_cash_only(p) ==
  [p EXCEPT !.orders = Empty, !.available_cash = p.total_cash]

unfreeze_all(p) ==
  [p EXCEPT !.orders = Empty,
            !.available_cash = p.total_cash,
            !.positions = [s \in DOMAIN p.positions |->
                             [p.positions[s] EXCEPT !.available_volume =
                                p.positions[s].total_volume]]]

\* mutant: a buy that pays the trade amount without the fee
handle_buy_without_fee(p, symbol, volume, price, fee) ==
  LET cost == price * volume
      old == IF symbol \in DOMAIN p.positions THEN p.positions[symbol] ELSE Position
  IN  [p EXCEPT !.available_cash = @ - cost,
                !.total_cash = @ - cost,
                !.positions = Put(@, symbol, update_positon(old, volume, 0, price))]

\* mutant: a sell that keeps a position sold down to nothing
handle_sell_keeps_empty(p, symbol, volume, price, fee) ==
  LET net_proceeds == price * volume - fee
      position == update_positon(p.positions[symbol], -volume, -volume, price)
  IN  [p EXCEPT !.available_cash = @ + net_proceeds,
                !.total_cash = @ + net_proceeds,
                !.positions = IF position.total_volume < 0
                              THEN Remove(@, symbol)
                              ELSE Put(@, symbol, position)]

\* mutant: a buy that makes the bought shares available at once
handle_buy_available(p, symbol, volume, price, fee) ==
  LET cost == price * volume + fee
      old == IF symbol \in DOMAIN p.positions THEN p.positions[symbol] ELSE Position
  IN  [p EXCEPT !.available_cash = @ - cost,
                !.total_cash = @ - cost,
                !.positions = Put(@, symbol, update_positon(old, volume, volume, price))]

handle_buy(p, symbol, volume, price, fee) ==
  LET cost == price * volume + fee
      old == IF symbol \in DOMAIN p.positions THEN p.positions[symbol] ELSE Position
  IN  [p EXCEPT !.available_cash = @ - cost,
                !.total_cash = @ - cost,
                !.positions = Put(@, symbol, update_positon(old, volume, 0, price))]

handle_sell(p, symbol, volume, price, fee) ==
  LET net_proceeds == price * volume - fee
      position == update_positon(p.positions[symbol], -volume, -volume, price)
  IN  [p EXCEPT !.available_cash = @ + net_proceeds,
                !.total_cash = @ + net_proceeds,
                !.positions = IF position.total_volume <= 0
                              THEN Remove(@, symbol)
                              ELSE Put(@, symbol, position)]

apply_trade(p, order) ==
  LET trade_amount == order.filled_price * order.filled_volume
      fee == total_fee(trade_amount, order.direction # BUY)
  IN  IF order.direction = BUY
      THEN [raised |-> FALSE,
            portfolio |-> handle_buy(p, order.symbol, order.filled_volume,
                                     order.filled_price, fee)]
      ELSE IF order.symbol \notin DOMAIN p.positions
      THEN [raised |-> TRUE, portfolio |-> p]
      ELSE [raised |-> FALSE,
            portfolio |-> handle_sell(p, order.symbol, order.filled_volume,
                                      order.filled_price, fee)]

update_available_cash(p, cash) ==
  [p EXCEPT !.available_cash = cash, !.total_cash = cash]

overwrite_positions(p, new_positions) ==
  [p EXCEPT !.positions = new_positions]

reset(p) == [p EXCEPT !.available_cash = 0, !.positions = Empty]

\* load_snapshot(): with no file nothing changes; otherwise cash and positions
\* are replaced by the document's, the reservation journal is left alone
\* SNAPSHOT_VERSION
SNAPSHOT_VERSION == "0.3"

\* mutant: a load that merges the document into the positions held
load_snapshot_merging(p, doc) ==
  IF ~doc.exists THEN p
  ELSE [p EXCEPT !.available_cash = doc.available_cash,
                 !.total_cash = doc.total_cash,
                 !.positions = [s \in DOMAIN @ \cup DOMAIN doc.positions |->
                                  IF s \in DOMAIN doc.positions THEN doc.positions[s]
                                  ELSE @[s]]]

\* mutant: a load that leaves the ledger alone when the version differs
load_snapshot_refusing_version(p, doc) ==
  IF ~doc.exists \/ doc.version # SNAPSHOT_VERSION THEN p
  ELSE [p EXCEPT !.available_cash = doc.available_cash,
                 !.total_cash = doc.total_cash,
                 !.positions = doc.positions]

load_snapshot(p, doc) ==
  IF ~doc.exists THEN p
  ELSE [p EXCEPT !.available_cash = doc.available_cash,
                 !.total_cash = doc.total_cash,
                 !.positions = doc.positions]

\* ------------------------------------------------------------------ state
VARIABLES
  portfolio,      \* PortfolioManager: available_cash, total_cash, _positions, _orders
  engine_orders,  \* LiveEngine._orders: local orders by id
  trader_orders,  \* LiveEngine._trader_orders: venue-confirmed orders by id
  next_id,        \* id the next created Order gets
  snapshot,       \* the latest snapshot file, or NoSnapshot
  lastOp,         \* history: the last operation, its input and its outcome
  n_unfreeze,     \* history: unfreeze_order_locked_asset calls per order id
  n_apply,        \* history: apply_trade calls per order id
  n_place,        \* history: trader.place_order calls per local order
  pre,            \* history: the last direct ledger call and the portfolio before it
  ledger_ops,     \* number of direct ledger calls made (SpecLedger)
  pc,             \* position of each thread inside its operation (SpecThreads)
  cur,            \* the order each thread is working on (SpecThreads)
  lock,           \* LiveEngine._lock: its holder, or "free"
  wait,           \* wait_orders_completion: pending_ids, timeout_cnt, how it returned
  driver          \* LiveSystem and main(): clock, day, phase flags, process state

vars == <<portfolio, engine_orders, trader_orders, next_id, snapshot, lastOp,
          n_unfreeze, n_apply, n_place, pre, ledger_ops, pc, cur, lock,
          wait, driver>>

history == <<n_unfreeze, n_apply>>
ledgerOnly == <<pre, ledger_ops>>
threadOnly == <<pc, cur, lock>>
systemOnly == <<wait, driver>>

NoSnapshot == [dir_exists |-> TRUE, exists |-> FALSE, version |-> SNAPSHOT_VERSION,
               available_cash |-> 0, total_cash |-> 0, positions |-> Empty]

Threads == {"strategy", "callback"}

Op(op, order, ret) == [op |-> op, ret |-> ret]

Call(op, order, p, raised) ==
  [op |-> op, order |-> order, portfolio |-> p, raised |-> raised]
NoCall == Call("none", NoOrder, PortfolioInit, FALSE)

\* wait_orders_completion not called yet
NoWait == [pending_ids |-> {}, timeout_cnt |-> 0, outcome |-> "none"]

\* LiveSystem.__init__ and main(): no phase done, not yet a trading day, the
\* process running
DriverInit ==
  [clock |-> 0, day |-> 1, current_date |-> 1, is_trading_day |-> FALSE,
   done |-> {}, process |-> "running"]

\* the snapshot a previous session left behind: one position, nothing frozen
StartSnapshot ==
  [dir_exists |-> TRUE, exists |-> TRUE, version |-> SNAPSHOT_VERSION,
   available_cash |-> InitialCash, total_cash |-> InitialCash,
   positions |-> [s \in {"A"} |-> [total_volume |-> 2, available_volume |-> 2]]]

\* the engine after construction, or after start() has loaded StartSnapshot
Init ==
  /\ portfolio \in {PortfolioInit, load_snapshot(PortfolioInit, StartSnapshot)}
  /\ engine_orders = Empty
  /\ trader_orders = Empty
  /\ next_id = 1
  /\ snapshot = NoSnapshot
  /\ lastOp = Op("init", NoOrder, "none")
  /\ n_unfreeze = [i \in OrderIds |-> 0]
  /\ n_apply = [i \in OrderIds |-> 0]
  /\ n_place = Empty
  /\ pre = NoCall
  /\ ledger_ops = 0
  /\ pc = [t \in Threads |-> "idle"]
  /\ cur = [t \in Threads |-> NoOrder]
  /\ lock = "free"
  /\ wait = NoWait
  /\ driver = DriverInit

\* ------------------------------------------------------------- LiveEngine
\* mutant: a table that lets a FILLED record go back to SUBMITTED
is_valid_transition_reopening(old_status, new_status) ==
  \/ old_status = PENDING /\ new_status \in {SUBMITTED, REJECTED}
  \/ old_status = SUBMITTED
       /\ new_status \in {PARTIAL_FILLED, FILLED, CANCELLED, REJECTED}
  \/ old_status = PARTIAL_FILLED /\ new_status \in {FILLED, CANCELLED}
  \/ old_status = FILLED /\ new_status = SUBMITTED

\* mutant: a table that accepts a repeated FILLED
is_valid_transition_repeating(old_status, new_status) ==
  \/ old_status = PENDING /\ new_status \in {SUBMITTED, REJECTED}
  \/ old_status = SUBMITTED
       /\ new_status \in {PARTIAL_FILLED, FILLED, CANCELLED, REJECTED}
  \/ old_status = PARTIAL_FILLED /\ new_status \in {FILLED, CANCELLED}
  \/ old_status = FILLED /\ new_status = FILLED

is_valid_order_status_transition(old_status, new_status) ==
  \/ old_status = PENDING /\ new_status \in {SUBMITTED, REJECTED}
  \/ old_status = SUBMITTED
       /\ new_status \in {PARTIAL_FILLED, FILLED, CANCELLED, REJECTED}
  \/ old_status = PARTIAL_FILLED /\ new_status \in {FILLED, CANCELLED}

\* mutant: add_order that freezes but forgets the local map
add_order_not_queued(order) ==
  LET fr == freeze_order_locked_asset(portfolio, order)
  IN  IF ~check_trade(portfolio, order)
      THEN /\ lastOp' = Op("add_order", order, "false")
           /\ UNCHANGED <<portfolio, engine_orders, next_id, n_place>>
      ELSE /\ portfolio' = fr.portfolio
           /\ engine_orders' = engine_orders
           /\ n_place' = n_place
           /\ next_id' = next_id + 1
           /\ lastOp' = Op("add_order", order, "true")

\* add_order(order): check, freeze, insert a copy into the local map
add_order(order) ==
  LET fr == freeze_order_locked_asset(portfolio, order)
  IN  IF ~check_trade(portfolio, order)
      THEN /\ lastOp' = Op("add_order", order, "false")
           /\ UNCHANGED <<portfolio, engine_orders, next_id, n_place>>
      ELSE IF fr.raised
      THEN /\ lastOp' = Op("add_order", order, "raised")
           /\ UNCHANGED <<portfolio, engine_orders, next_id, n_place>>
      ELSE /\ portfolio' = fr.portfolio
           /\ engine_orders' = Put(engine_orders, order.id, order)
           /\ n_place' = Put(n_place, order.id, 0)
           /\ next_id' = next_id + 1
           /\ lastOp' = Op("add_order", order, "true")

AddOrderUpTo(cap) ==
  /\ next_id <= cap
  /\ \E symbol \in Symbols, direction \in {BUY, SELL}, price \in OrderPrices,
        volume \in Volumes :
        add_order(Order(next_id, symbol, direction, price, volume))
  /\ UNCHANGED <<systemOnly, trader_orders, snapshot, history, ledgerOnly, threadOnly>>

AddOrder == AddOrderUpTo(MaxOrders)

\* place_orders(): every PENDING local order goes to the venue, whose answer
\* (res) makes it SUBMITTED or REJECTED
PendingIds == {i \in DOMAIN engine_orders : engine_orders[i].status = PENDING}

\* mutant: place_orders that sends the orders the venue refused once more
place_orders_resending(res) ==
  /\ engine_orders' =
       [i \in DOMAIN engine_orders |->
          IF engine_orders[i].status = PENDING
          THEN update_status(engine_orders[i], IF res[i] THEN SUBMITTED ELSE REJECTED)
          ELSE IF engine_orders[i].status = REJECTED
          THEN update_status(engine_orders[i], SUBMITTED)
          ELSE engine_orders[i]]
  /\ n_place' =
       [i \in DOMAIN engine_orders |->
          IF engine_orders[i].status \in {PENDING, REJECTED}
          THEN n_place[i] + 1 ELSE n_place[i]]

place_orders(res) ==
  /\ engine_orders' =
       [i \in DOMAIN engine_orders |->
          IF engine_orders[i].status = PENDING
          THEN update_status(engine_orders[i], IF res[i] THEN SUBMITTED ELSE REJECTED)
          ELSE engine_orders[i]]
  /\ n_place' =
       [i \in DOMAIN engine_orders |->
          IF engine_orders[i].status = PENDING THEN n_place[i] + 1 ELSE n_place[i]]

PlaceOrders ==
  /\ \E res \in [PendingIds -> BOOLEAN] : place_orders(res)
  /\ lastOp' = Op("place_orders", NoOrder, "none")
  /\ UNCHANGED <<systemOnly, portfolio, trader_orders, next_id, snapshot, history,
                 ledgerOnly, threadOnly>>

\* mutant: settlement of a fill that leaves the reservation in place
process_filled_without_release(p, local, order) ==
  IF local.direction = SELL /\ order.symbol \notin DOMAIN p.positions
  THEN [applied |-> FALSE, portfolio |-> p]
  ELSE [applied |-> TRUE, portfolio |-> apply_trade(p, order).portfolio]

\* _process_trader_filled_order(order): release the local order's reservation,
\* then settle the fill.  For a SELL the position is read first (avg_price,
\* entry_date); with the position gone that read fails after the unfreeze and
\* the failure is logged, not raised, so apply_trade is not reached.
process_trader_filled_order(p, local, order) ==
  LET released == unfreeze_order_locked_asset(p, local).portfolio
  IN  IF local.direction = SELL /\ order.symbol \notin DOMAIN released.positions
      THEN [applied |-> FALSE, portfolio |-> released]
      ELSE [applied |-> TRUE, portfolio |-> apply_trade(released, order).portfolio]

\* mutant: a callback that records a rejection and keeps the reservation
callback_keeping_rejected(p, local_orders, confirmed, order) ==
  LET id == order.id
      existing == id \in DOMAIN confirmed
      valid == existing /\
               is_valid_order_status_transition(confirmed[id].status, order.status)
      filled == process_trader_filled_order(p, local_orders[id], order)
  IN  IF ~existing /\ id \notin DOMAIN local_orders
      THEN [ret |-> "unknown", confirmed |-> confirmed, portfolio |-> p,
            unfroze |-> FALSE, applied |-> FALSE]
      ELSE IF existing /\ ~valid
      THEN [ret |-> "illegal", confirmed |-> confirmed, portfolio |-> p,
            unfroze |-> FALSE, applied |-> FALSE]
      ELSE [ret |-> IF existing THEN "updated" ELSE "new",
            confirmed |->
              IF existing
              THEN Put(confirmed, id,
                       update_status_filled(confirmed[id], order.status,
                                            order.filled_volume, order.filled_price))
              ELSE Put(confirmed, id, order),
            portfolio |-> IF order.status = FILLED THEN filled.portfolio ELSE p,
            unfroze |-> order.status = FILLED,
            applied |-> order.status = FILLED /\ filled.applied]

\* mutant: a callback that settles a partial fill like a fill
callback_settling_partial(p, local_orders, confirmed, order) ==
  LET id == order.id
      existing == id \in DOMAIN confirmed
      valid == existing /\
               is_valid_order_status_transition(confirmed[id].status, order.status)
      filled == process_trader_filled_order(p, local_orders[id], order)
  IN  IF ~existing /\ id \notin DOMAIN local_orders
      THEN [ret |-> "unknown", confirmed |-> confirmed, portfolio |-> p,
            unfroze |-> FALSE, applied |-> FALSE]
      ELSE IF existing /\ ~valid
      THEN [ret |-> "illegal", confirmed |-> confirmed, portfolio |-> p,
            unfroze |-> FALSE, applied |-> FALSE]
      ELSE [ret |-> IF existing THEN "updated" ELSE "new",
            confirmed |->
              IF existing
              THEN Put(confirmed, id,
                       update_status_filled(confirmed[id], order.status,
                                            order.filled_volume, order.filled_price))
              ELSE Put(confirmed, id, order),
            portfolio |->
              IF order.status \in {FILLED, PARTIAL_FILLED} THEN filled.portfolio
              ELSE IF order.status = REJECTED
              THEN unfreeze_order_locked_asset(p, local_orders[id]).portfolio
              ELSE p,
            unfroze |-> order.status \in {FILLED, PARTIAL_FILLED, REJECTED},
            applied |-> order.status \in {FILLED, PARTIAL_FILLED} /\ filled.applied]

\* mutant: a callback that records an update for an id nobody knows
callback_recording_unknown(p, local_orders, confirmed, order) ==
  LET id == order.id
      existing == id \in DOMAIN confirmed
      valid == existing /\
               is_valid_order_status_transition(confirmed[id].status, order.status)
      filled == process_trader_filled_order(p, local_orders[id], order)
  IN  IF ~existing /\ id \notin DOMAIN local_orders
      THEN [ret |-> "unknown", confirmed |-> Put(confirmed, id, order),
            portfolio |-> p, unfroze |-> FALSE, applied |-> FALSE]
      ELSE IF existing /\ ~valid
      THEN [ret |-> "illegal", confirmed |-> confirmed, portfolio |-> p,
            unfroze |-> FALSE, applied |-> FALSE]
      ELSE [ret |-> IF existing THEN "updated" ELSE "new",
            confirmed |->
              IF existing
              THEN Put(confirmed, id,
                       update_status_filled(confirmed[id], order.status,
                                            order.filled_volume, order.filled_price))
              ELSE Put(confirmed, id, order),
            portfolio |->
              IF order.status = FILLED THEN filled.portfolio
              ELSE IF order.status = REJECTED
              THEN unfreeze_order_locked_asset(p, local_orders[id]).portfolio
              ELSE p,
            unfroze |-> order.status \in {FILLED, REJECTED},
            applied |-> order.status = FILLED /\ filled.applied]

\* the outcome of process_trader_order_callback(order): what the update was
\* taken for, the confirmed map and the portfolio afterwards, and whether
\* unfreeze / apply_trade ran
callback_result(p, local_orders, confirmed, order) ==
  LET id == order.id
      existing == id \in DOMAIN confirmed
      valid == existing /\
               is_valid_order_status_transition(confirmed[id].status, order.status)
      settle == (~existing \/ valid)
      filled == process_trader_filled_order(p, local_orders[id], order)
  IN  IF ~existing /\ id \notin DOMAIN local_orders
      THEN [ret |-> "unknown", confirmed |-> confirmed, portfolio |-> p,
            unfroze |-> FALSE, applied |-> FALSE]
      ELSE IF existing /\ ~valid
      THEN [ret |-> "illegal", confirmed |-> confirmed, portfolio |-> p,
            unfroze |-> FALSE, applied |-> FALSE]
      ELSE [ret |-> IF existing THEN "updated" ELSE "new",
            confirmed |->
              IF existing
              THEN Put(confirmed, id,
                       update_status_filled(confirmed[id], order.status,
                                            order.filled_volume, order.filled_price))
              ELSE Put(confirmed, id, order),
            portfolio |->
              IF order.status = FILLED THEN filled.portfolio
              ELSE IF order.status = REJECTED
              THEN unfreeze_order_locked_asset(p, local_orders[id]).portfolio
              ELSE p,
            unfroze |-> order.status \in {FILLED, REJECTED},
            applied |-> order.status = FILLED /\ filled.applied]

process_trader_order_callback(order) ==
  LET r == callback_result(portfolio, engine_orders, trader_orders, order)
  IN  /\ trader_orders' = r.confirmed
      /\ portfolio' = r.portfolio
      /\ n_unfreeze' = IF r.unfroze
                       THEN [n_unfreeze EXCEPT ![order.id] = @ + 1] ELSE n_unfreeze
      /\ n_apply' = IF r.applied
                    THEN [n_apply EXCEPT ![order.id] = @ + 1] ELSE n_apply
      /\ lastOp' = Op("callback", order, r.ret)

\* what the venue can report about order id: the order as it was sent, with a
\* status and, for fills, the filled volume and price (which may differ from
\* the requested price); an id the engine does not know carries any order
VenueUpdates(id) ==
  LET base == IF id \in DOMAIN engine_orders THEN engine_orders[id]
              ELSE Order(id, "A", BUY, 1, 1)
  IN  {update_status_filled(base, st, 0, 0) :
         st \in {PENDING, SUBMITTED, CANCELLED, REJECTED}}
      \cup {update_status_filled(base, FILLED, base.volume, fp) : fp \in Prices}
      \cup {update_status_filled(base, PARTIAL_FILLED, fv, fp) :
              fv \in 1..(base.volume - 1), fp \in Prices}

OnVenueUpdate ==
  /\ \E id \in OrderIds : \E order \in VenueUpdates(id) :
        process_trader_order_callback(order)
  /\ UNCHANGED <<systemOnly, n_place, engine_orders, next_id, snapshot, ledgerOnly, threadOnly>>

\* cancel_orders(): every confirmed order still SUBMITTED is cancelled at the
\* venue; on acknowledgment (res) the confirmed record becomes CANCELLED and
\* the local order's reservation is released
\* mutant: cancel_orders that also cancels confirmed orders already FILLED
SubmittedOrFilledIds ==
  {i \in DOMAIN trader_orders : trader_orders[i].status \in {SUBMITTED, FILLED}}

SubmittedIds == {i \in DOMAIN trader_orders : trader_orders[i].status = SUBMITTED}

RECURSIVE unfreeze_each(_, _)
unfreeze_each(p, ids) ==
  IF ids = {} THEN p
  ELSE LET i == CHOOSE x \in ids : \A y \in ids : x <= y
       IN  unfreeze_each(unfreeze_order_locked_asset(p, engine_orders[i]).portfolio,
                         ids \ {i})

\* mutant: cancel_orders that marks the record and keeps the reservation
cancel_orders_without_release(res) ==
  LET acked == {i \in SubmittedIds : res[i]}
  IN  /\ trader_orders' =
           [i \in DOMAIN trader_orders |->
              IF i \in acked
              THEN update_status_filled(trader_orders[i], CANCELLED, 0, 0)
              ELSE trader_orders[i]]
      /\ portfolio' = portfolio
      /\ n_unfreeze' = n_unfreeze

cancel_orders(res) ==
  LET acked == {i \in SubmittedIds : res[i]}
  IN  /\ trader_orders' =
           [i \in DOMAIN trader_orders |->
              IF i \in acked
              THEN update_status_filled(trader_orders[i], CANCELLED, 0, 0)
              ELSE trader_orders[i]]
      /\ portfolio' = unfreeze_each(portfolio, acked)
      /\ n_unfreeze' = [i \in OrderIds |->
                          IF i \in acked THEN n_unfreeze[i] + 1 ELSE n_unfreeze[i]]

CancelOrders ==
  /\ \E res \in [SubmittedIds -> BOOLEAN] : cancel_orders(res)
  /\ lastOp' = Op("cancel_orders", NoOrder, "none")
  /\ UNCHANGED <<systemOnly, n_place, engine_orders, next_id, snapshot, n_apply,
                 ledgerOnly, threadOnly>>

\* mutant: a rollover that clears the order maps and releases nothing
on_date_change_without_release ==
  /\ engine_orders' = Empty
  /\ trader_orders' = Empty
  /\ n_place' = Empty
  /\ portfolio' = portfolio

\* on_date_change(date): _reset_daily_state() and portfolio.unfreeze_all()
on_date_change ==
  /\ engine_orders' = Empty
  /\ trader_orders' = Empty
  /\ n_place' = Empty
  /\ portfolio' = unfreeze_all(portfolio)

OnDateChange ==
  /\ on_date_change
  /\ lastOp' = Op("on_date_change", NoOrder, "none")
  /\ UNCHANGED <<systemOnly, next_id, snapshot, history, ledgerOnly, threadOnly>>

\* what the venue's query_asset / query_positions can answer
VenueCash == {InitialCash}
VenuePositions ==
  {Empty,
   [s \in {"A"} |-> [total_volume |-> 2, available_volume |-> 2]]}

\* sync_server(): cash and positions are overwritten with the venue's
sync_server(cash, new_positions) ==
  portfolio' = overwrite_positions(update_available_cash(portfolio, cash),
                                   new_positions)

SyncServer ==
  /\ \E cash \in VenueCash, new_positions \in VenuePositions :
        sync_server(cash, new_positions)
  /\ lastOp' = Op("sync_server", NoOrder, "none")
  /\ UNCHANGED <<systemOnly, n_place, engine_orders, trader_orders, next_id, snapshot, history,
                 ledgerOnly, threadOnly>>

\* PortfolioManager.reset()
Reset ==
  /\ portfolio' = reset(portfolio)
  /\ lastOp' = Op("reset", NoOrder, "none")
  /\ UNCHANGED <<systemOnly, n_place, engine_orders, trader_orders, next_id, snapshot, history,
                 ledgerOnly, threadOnly>>

\* save_snapshot(): the directory is made if needed, and the version, the
\* cash and the positions go to the snapshot file
save_snapshot(p) ==
  [dir_exists |-> TRUE, exists |-> TRUE, version |-> SNAPSHOT_VERSION,
   available_cash |-> p.available_cash, total_cash |-> p.total_cash,
   positions |-> p.positions]

SaveSnapshot ==
  /\ snapshot' = save_snapshot(portfolio)
  /\ lastOp' = Op("save_snapshot", NoOrder, "none")
  /\ UNCHANGED <<systemOnly, n_place, portfolio, engine_orders, trader_orders, next_id, history,
                 ledgerOnly, threadOnly>>

\* what a load that found its file reports: a version mismatch is logged
loaded(doc) ==
  IF doc.version = SNAPSHOT_VERSION THEN "loaded" ELSE "loaded, mismatch logged"

\* load_snapshot(): the latest file of the snapshot directory is looked up;
\* listing a directory that is not there raises, and the ledger is untouched
LoadSnapshot ==
  /\ IF ~snapshot.dir_exists
     THEN /\ portfolio' = portfolio
          /\ lastOp' = Op("load_snapshot", NoOrder, "raised")
     ELSE /\ portfolio' = load_snapshot(portfolio, snapshot)
          /\ lastOp' = Op("load_snapshot", NoOrder,
                          IF snapshot.exists THEN loaded(snapshot) ELSE "missing")
  /\ UNCHANGED <<systemOnly, n_place, engine_orders, trader_orders, next_id, snapshot, history,
                 ledgerOnly, threadOnly>>

\* load_snapshot(filepath): the path is the snapshot file or names no file
LoadSnapshotPath ==
  /\ \E is_file \in BOOLEAN :
       IF is_file /\ snapshot.dir_exists /\ snapshot.exists
       THEN /\ portfolio' = load_snapshot(portfolio, snapshot)
            /\ lastOp' = Op("load_snapshot_path", NoOrder, loaded(snapshot))
       ELSE /\ portfolio' = portfolio
            /\ lastOp' = Op("load_snapshot_path", NoOrder, "missing")
  /\ UNCHANGED <<systemOnly, n_place, engine_orders, trader_orders, next_id, snapshot,
                 history, ledgerOnly, threadOnly>>

\* the order flow of a session: submit, dispatch, venue updates, cancel, rollover
Next ==
  \/ AddOrder
  \/ PlaceOrders
  \/ OnVenueUpdate
  \/ CancelOrders
  \/ OnDateChange

Spec == Init /\ [][Next]_vars

\* the same session with the account operations: venue sync, reset, snapshots
AddOrderSession == AddOrderUpTo(MaxSessionOrders)

NextSession ==
  \/ AddOrderSession
  \/ PlaceOrders
  \/ OnVenueUpdate
  \/ CancelOrders
  \/ OnDateChange
  \/ SyncServer
  \/ Reset
  \/ SaveSnapshot
  \/ LoadSnapshot

SpecSession == Init /\ [][NextSession]_vars

\* ------------------------------------------------ the two threads
\* add_order runs on the strategy thread and process_trader_order_callback
\* on the venue connector's thread.  LiveEngine creates _lock and no
\* operation acquires it, so the statements of the two interleave; each
\* action below is one statement group of the source.
StrategyCheck ==
  /\ pc["strategy"] = "idle"
  /\ next_id <= MaxOrders
  /\ \E symbol \in Symbols, direction \in {BUY, SELL}, price \in OrderPrices,
        volume \in Volumes :
       LET order == Order(next_id, symbol, direction, price, volume)
       IN  /\ check_trade(portfolio, order)
           /\ cur' = [cur EXCEPT !["strategy"] = order]
           /\ pc' = [pc EXCEPT !["strategy"] = "freeze"]
  /\ UNCHANGED <<systemOnly, n_place, portfolio, engine_orders, trader_orders, next_id, snapshot,
                 lastOp, history, ledgerOnly, lock>>

StrategyFreeze ==
  /\ pc["strategy"] = "freeze"
  /\ LET debited == freeze_debit(portfolio, cur["strategy"])
     IN  /\ portfolio' = debited.portfolio
         /\ pc' = [pc EXCEPT !["strategy"] =
                     IF debited.raised THEN "idle" ELSE "journal"]
  /\ UNCHANGED <<systemOnly, n_place, engine_orders, trader_orders, next_id, snapshot, lastOp,
                 history, ledgerOnly, cur, lock>>

StrategyJournal ==
  /\ pc["strategy"] = "journal"
  /\ portfolio' = freeze_record(portfolio, cur["strategy"])
  /\ pc' = [pc EXCEPT !["strategy"] = "queue"]
  /\ UNCHANGED <<systemOnly, n_place, engine_orders, trader_orders, next_id, snapshot, lastOp,
                 history, ledgerOnly, cur, lock>>

StrategyQueue ==
  /\ pc["strategy"] = "queue"
  /\ engine_orders' = Put(engine_orders, cur["strategy"].id, cur["strategy"])
  /\ n_place' = Put(n_place, cur["strategy"].id, 0)
  /\ next_id' = next_id + 1
  /\ pc' = [pc EXCEPT !["strategy"] = "idle"]
  /\ UNCHANGED <<systemOnly, portfolio, trader_orders, snapshot, lastOp, history,
                 ledgerOnly, cur, lock>>

\* the callback's lookup and its update of the confirmed map
CallbackBegin ==
  /\ pc["callback"] = "idle"
  /\ \E id \in OrderIds : \E order \in VenueUpdates(id) :
       LET existing == id \in DOMAIN trader_orders
           valid == existing /\ is_valid_order_status_transition(
                                   trader_orders[id].status, order.status)
           accepted == IF existing THEN valid ELSE id \in DOMAIN engine_orders
       IN  /\ accepted
           /\ trader_orders' =
                IF existing
                THEN Put(trader_orders, id,
                         update_status_filled(trader_orders[id], order.status,
                                              order.filled_volume, order.filled_price))
                ELSE Put(trader_orders, id, order)
           /\ cur' = [cur EXCEPT !["callback"] = order]
           /\ pc' = [pc EXCEPT !["callback"] =
                       IF order.status \in {FILLED, REJECTED}
                       THEN "unfreeze" ELSE "idle"]
  /\ UNCHANGED <<systemOnly, n_place, portfolio, engine_orders, next_id, snapshot, lastOp, history,
                 ledgerOnly, lock>>

CallbackUnfreeze ==
  /\ pc["callback"] = "unfreeze"
  /\ portfolio' = unfreeze_credit(portfolio, engine_orders[cur["callback"].id])
  /\ n_unfreeze' = [n_unfreeze EXCEPT ![cur["callback"].id] = @ + 1]
  /\ pc' = [pc EXCEPT !["callback"] = "release"]
  /\ UNCHANGED <<systemOnly, n_place, engine_orders, trader_orders, next_id, snapshot, lastOp,
                 n_apply, ledgerOnly, cur, lock>>

CallbackRelease ==
  /\ pc["callback"] = "release"
  /\ portfolio' = unfreeze_remove(portfolio, engine_orders[cur["callback"].id])
  /\ pc' = [pc EXCEPT !["callback"] =
              IF cur["callback"].status = FILLED THEN "apply" ELSE "idle"]
  /\ UNCHANGED <<systemOnly, n_place, engine_orders, trader_orders, next_id, snapshot, lastOp,
                 history, ledgerOnly, cur, lock>>

CallbackApply ==
  /\ pc["callback"] = "apply"
  /\ LET order == cur["callback"]
         gone == order.direction = SELL /\ order.symbol \notin DOMAIN portfolio.positions
     IN  /\ portfolio' = IF gone THEN portfolio
                         ELSE apply_trade(portfolio, order).portfolio
         /\ n_apply' = IF gone THEN n_apply
                       ELSE [n_apply EXCEPT ![order.id] = @ + 1]
  /\ pc' = [pc EXCEPT !["callback"] = "idle"]
  /\ UNCHANGED <<systemOnly, n_place, engine_orders, trader_orders, next_id, snapshot, lastOp,
                 n_unfreeze, ledgerOnly, cur, lock>>

\* cancel_orders on the strategy thread, one confirmed order at a time: the
\* status test and the call of trader.cancel_order ...
CancelTest ==
  /\ pc["strategy"] = "idle"
  /\ \E id \in SubmittedIds :
       /\ cur' = [cur EXCEPT !["strategy"] = trader_orders[id]]
       /\ pc' = [pc EXCEPT !["strategy"] = "cancel"]
  /\ UNCHANGED <<systemOnly, n_place, portfolio, engine_orders, trader_orders, next_id,
                 snapshot, lastOp, history, ledgerOnly, lock>>

\* ... and the handling of its answer: on an acknowledged cancel the confirmed
\* record becomes CANCELLED and the local order's reservation is released
CancelAck ==
  /\ pc["strategy"] = "cancel"
  /\ \E res \in BOOLEAN :
       LET id == cur["strategy"].id
       IN  IF res
           THEN /\ trader_orders' =
                     Put(trader_orders, id,
                         update_status_filled(trader_orders[id], CANCELLED, 0, 0))
                /\ portfolio' =
                     unfreeze_order_locked_asset(portfolio, engine_orders[id]).portfolio
                /\ n_unfreeze' = [n_unfreeze EXCEPT ![id] = @ + 1]
           ELSE UNCHANGED <<trader_orders, portfolio, n_unfreeze>>
  /\ pc' = [pc EXCEPT !["strategy"] = "idle"]
  /\ UNCHANGED <<systemOnly, n_place, engine_orders, next_id, snapshot, lastOp, n_apply,
                 ledgerOnly, cur, lock>>

NextThreads ==
  \/ StrategyCheck
  \/ StrategyFreeze
  \/ StrategyJournal
  \/ StrategyQueue
  \/ CancelTest
  \/ CancelAck
  \/ CallbackBegin
  \/ CallbackUnfreeze
  \/ CallbackRelease
  \/ CallbackApply

SpecThreads == Init /\ [][NextThreads]_vars

\* ------------------------------------------- wait_orders_completion
\* the sleeps after which the wait gives up: "if timeout_cnt > 60"
timeout_cap == 60

\* the orders of the sessions the wait is studied in
WaitOrder1 == Order(1, "A", BUY, 1, 2)
WaitOrder2 == Order(2, "B", BUY, 1, 1)

\* the engine after add_order and place_orders of no, one or two orders
WaitStarts ==
  {[portfolio |-> PortfolioInit, engine_orders |-> Empty],
   [portfolio |-> freeze_order_locked_asset(PortfolioInit, WaitOrder1).portfolio,
    engine_orders |-> [i \in {1} |-> update_status(WaitOrder1, SUBMITTED)]],
   [portfolio |->
      freeze_order_locked_asset(
        freeze_order_locked_asset(PortfolioInit, WaitOrder1).portfolio,
        WaitOrder2).portfolio,
    engine_orders |->
      [i \in {1, 2} |-> IF i = 1 THEN update_status(WaitOrder1, SUBMITTED)
                        ELSE update_status(WaitOrder2, REJECTED)]]}

InitWait ==
  /\ \E start \in WaitStarts :
       /\ portfolio = start.portfolio
       /\ engine_orders = start.engine_orders
       /\ n_place = [i \in DOMAIN start.engine_orders |-> 1]
       /\ next_id = Cardinality(DOMAIN start.engine_orders) + 1
  /\ trader_orders = Empty
  /\ snapshot = NoSnapshot
  /\ lastOp = Op("init", NoOrder, "none")
  /\ n_unfreeze = [i \in OrderIds |-> 0]
  /\ n_apply = [i \in OrderIds |-> 0]
  /\ pre = NoCall
  /\ ledger_ops = 0
  /\ pc = [t \in Threads |-> "idle"]
  /\ cur = [t \in Threads |-> NoOrder]
  /\ lock = "free"
  /\ wait = NoWait
  /\ driver = DriverInit

\* pending_ids: the local orders that are SUBMITTED when the wait begins
WaitBegin ==
  /\ pc["strategy"] = "idle"
  /\ wait.outcome = "none"
  /\ wait' = [pending_ids |-> {i \in DOMAIN engine_orders :
                                 engine_orders[i].status = SUBMITTED},
              timeout_cnt |-> 0, outcome |-> "waiting"]
  /\ pc' = [pc EXCEPT !["strategy"] = "poll"]
  /\ UNCHANGED <<portfolio, engine_orders, trader_orders, next_id, snapshot,
                 lastOp, history, n_place, ledgerOnly, cur, lock, driver>>

\* mutant: a poll that is satisfied by any confirmed record
all_confirmed(ids) == \A i \in ids : i \in DOMAIN trader_orders

\* one pass of the for loop: done iff every pending id has a confirmed record
\* in FILLED, CANCELLED or REJECTED
all_completed(ids) ==
  \A i \in ids : /\ i \in DOMAIN trader_orders
                 /\ trader_orders[i].status \in {FILLED, CANCELLED, REJECTED}

WaitPoll ==
  /\ pc["strategy"] = "poll"
  /\ IF all_completed(wait.pending_ids)
     THEN /\ wait' = [wait EXCEPT !.outcome = "completed"]
          /\ pc' = [pc EXCEPT !["strategy"] = "idle"]
     ELSE /\ wait' = wait
          /\ pc' = [pc EXCEPT !["strategy"] = "sleep"]
  /\ UNCHANGED <<portfolio, engine_orders, trader_orders, next_id, snapshot,
                 lastOp, history, n_place, ledgerOnly, cur, lock, driver>>

\* time.sleep(0.5), timeout_cnt += 1, and the test of the cap
WaitSleep ==
  /\ pc["strategy"] = "sleep"
  /\ IF wait.timeout_cnt + 1 > timeout_cap
     THEN /\ wait' = [wait EXCEPT !.timeout_cnt = @ + 1, !.outcome = "timeout"]
          /\ pc' = [pc EXCEPT !["strategy"] = "idle"]
     ELSE /\ wait' = [wait EXCEPT !.timeout_cnt = @ + 1]
          /\ pc' = [pc EXCEPT !["strategy"] = "poll"]
  /\ UNCHANGED <<portfolio, engine_orders, trader_orders, next_id, snapshot,
                 lastOp, history, n_place, ledgerOnly, cur, lock, driver>>

\* the venue's callbacks arrive on their own thread while the wait polls
NextWait ==
  \/ WaitBegin
  \/ WaitPoll
  \/ WaitSleep
  \/ OnVenueUpdate

SpecWait == InitWait /\ [][NextWait]_vars

\* ------------------------------------- rebalance_portfolio_exposure
\* risk.params.max_portfolio_exposure = ExposureNum / ExposureDen
ExposureNum == 1
ExposureDen == 2

\* the round lot of the volume formula
LotSize == 100

\* Position.market_value = total_volume * cur_price
market_value(pos) == pos.total_volume * pos.cur_price

RECURSIVE SumMarketValue(_, _)
SumMarketValue(positions, symbols) ==
  IF symbols = {} THEN 0
  ELSE LET s == CHOOSE x \in symbols : TRUE
       IN  market_value(positions[s]) + SumMarketValue(positions, symbols \ {s})

total_market_value(p) == SumMarketValue(p.positions, DOMAIN p.positions)

total_equity(p) == p.total_cash + total_market_value(p)

\* mutant: a rebalancer that also acts when the ratio equals the target
exposure_at_or_above_target(p) ==
  /\ total_equity(p) > 0
  /\ total_market_value(p) * ExposureDen >= ExposureNum * total_equity(p)

\* neither "equity <= 0" nor "current_ratio <= target"
exposure_above_target(p) ==
  /\ total_equity(p) > 0
  /\ total_market_value(p) * ExposureDen > ExposureNum * total_equity(p)

\* excess_mv = current_mv - target * equity, times ExposureDen
excess_mv(p) ==
  total_market_value(p) * ExposureDen - ExposureNum * total_equity(p)

\* mutant: the lots of an allocation rounded down
target_volume_rounded_down(p, pos) ==
  ((excess_mv(p) * market_value(pos))
     \div (ExposureDen * total_market_value(p) * pos.cur_price * LotSize)) * LotSize

\* target_volume = int(round(target_sell_mv / (cur_price * 100) + 0.5)) * 100
\* with target_sell_mv = excess_mv * market_value / total_mv
target_volume(p, pos) ==
  LET n == excess_mv(p) * market_value(pos)
      d == ExposureDen * total_market_value(p) * pos.cur_price * LotSize
  IN  RoundHalfEven(2 * n + d, 2 * d) * LotSize

\* actual_volume = max(min(target_volume, available_volume), 0)
actual_volume(p, pos) ==
  LET target == target_volume(p, pos)
  IN  Max(IF target <= pos.available_volume THEN target ELSE pos.available_volume, 0)

\* Order(..., type=OrderType.MARKET): the rebalancer's orders carry their type
MarketOrder(id, symbol, direction, price, volume) ==
  [id |-> id, symbol |-> symbol, direction |-> direction, price |-> price,
   volume |-> volume, filled_price |-> 0, filled_volume |-> 0, status |-> PENDING,
   type |-> "MARKET"]

\* mutant: the positions taken in any order
SymbolsInAnyOrder(p) ==
  LET n == Cardinality(DOMAIN p.positions)
  IN  {f \in [1..n -> DOMAIN p.positions] : \A i, j \in 1..n : i # j => f[i] # f[j]}

\* sorted(positions, key=market_value, reverse=True): every order of the
\* symbols with no smaller market value before a larger one (ties keep the
\* insertion order of the dict, which is any order)
SortedSymbols(p) ==
  LET n == Cardinality(DOMAIN p.positions)
  IN  {f \in [1..n -> DOMAIN p.positions] :
         /\ \A i, j \in 1..n : i # j => f[i] # f[j]
         /\ \A i, j \in 1..n :
              i < j => market_value(p.positions[f[i]]) >= market_value(p.positions[f[j]])}

\* the for loop over the sorted positions; st is [portfolio, orders, next_id,
\* remaining (remaining_excess times ExposureDen), raised]
RECURSIVE rebalance_loop(_, _, _)
rebalance_loop(symbols, st, start) ==
  IF symbols = <<>> \/ st.remaining <= 0 \/ st.raised THEN st
  ELSE LET symbol == Head(symbols)
           pos == st.portfolio.positions[symbol]
           volume == actual_volume(start, pos)
           order == MarketOrder(st.next_id, symbol, SELL, pos.cur_price, volume)
           fr == freeze_order_locked_asset(st.portfolio, order)
       IN  IF volume < LotSize \/ ~check_trade(st.portfolio, order)
           THEN rebalance_loop(Tail(symbols), st, start)
           ELSE IF fr.raised
           THEN [st EXCEPT !.raised = TRUE]
           ELSE rebalance_loop(
                  Tail(symbols),
                  [portfolio |-> fr.portfolio,
                   orders |-> Put(st.orders, order.id, order),
                   next_id |-> st.next_id + 1,
                   remaining |-> st.remaining - ExposureDen * volume * pos.cur_price,
                   raised |-> FALSE],
                  start)

\* place_orders() on the orders the loop left: res is the venue's answer
dispatched(orders, res) ==
  [i \in DOMAIN orders |->
     IF orders[i].status = PENDING
     THEN update_status(orders[i], IF res[i] THEN SUBMITTED ELSE REJECTED)
     ELSE orders[i]]

\* the positions and the cash a trading day can open with
RebalanceVolumes == {[total_volume |-> 200, available_volume |-> 200],
                     [total_volume |-> 200, available_volume |-> 50],
                     [total_volume |-> 300, available_volume |-> 300],
                     [total_volume |-> 300, available_volume |-> 150],
                     [total_volume |-> 600, available_volume |-> 600]}

RebalancePositions ==
  {[total_volume |-> v.total_volume, available_volume |-> v.available_volume,
    cur_price |-> price] : v \in RebalanceVolumes, price \in Prices}

RebalanceCash == {0, 100, 200, 800}

\* an order the strategy queued before the rebalance
QueuedOrder == Order(1, "C", BUY, 1, 100)

RebalanceStarts ==
  LET ledgers ==
        {[available_cash |-> cash, total_cash |-> cash, positions |-> positions,
          orders |-> Empty] :
           cash \in RebalanceCash,
           positions \in UNION {[held -> RebalancePositions] : held \in SUBSET {"A", "B"}}}
  IN  {[portfolio |-> p, engine_orders |-> Empty] : p \in ledgers}
      \cup
      {[portfolio |-> freeze_order_locked_asset(p, QueuedOrder).portfolio,
        engine_orders |-> [i \in {1} |-> QueuedOrder]] :
         p \in {q \in ledgers : check_trade(q, QueuedOrder)}}

InitRebalance ==
  /\ \E start \in RebalanceStarts :
       /\ portfolio = start.portfolio
       /\ engine_orders = start.engine_orders
       /\ n_place = [i \in DOMAIN start.engine_orders |-> 0]
       /\ next_id = Cardinality(DOMAIN start.engine_orders) + 1
  /\ trader_orders = Empty
  /\ snapshot = NoSnapshot
  /\ lastOp = Op("init", NoOrder, "none")
  /\ n_unfreeze = [i \in OrderIds |-> 0]
  /\ n_apply = [i \in OrderIds |-> 0]
  /\ pre = NoCall
  /\ ledger_ops = 0
  /\ pc = [t \in Threads |-> "idle"]
  /\ cur = [t \in Threads |-> NoOrder]
  /\ lock = "free"
  /\ wait = NoWait
  /\ driver = DriverInit

\* rebalance_portfolio_exposure(): the two early returns, else the loop,
\* place_orders() and the start of wait_orders_completion(), whose polls
\* and sleeps are WaitPoll and WaitSleep
Rebalance ==
  /\ pc["strategy"] = "idle"
  /\ wait.outcome = "none"
  /\ pre' = Call("rebalance", NoOrder, portfolio, FALSE)
  /\ IF ~exposure_above_target(portfolio)
     THEN /\ lastOp' = Op("rebalance", NoOrder, "noop")
          /\ UNCHANGED <<portfolio, engine_orders, next_id, n_place, wait, pc>>
     ELSE \E symbols \in SortedSymbols(portfolio) :
            LET st == rebalance_loop(
                        symbols,
                        [portfolio |-> portfolio, orders |-> engine_orders,
                         next_id |-> next_id, remaining |-> excess_mv(portfolio),
                         raised |-> FALSE],
                        portfolio)
                pending == {i \in DOMAIN st.orders : st.orders[i].status = PENDING}
            IN  /\ portfolio' = st.portfolio
                /\ next_id' = st.next_id
                /\ IF st.raised
                   THEN /\ engine_orders' = st.orders
                        /\ n_place' = [i \in DOMAIN st.orders |->
                                         IF i \in DOMAIN n_place THEN n_place[i] ELSE 0]
                        /\ lastOp' = Op("rebalance", NoOrder, "raised")
                        /\ UNCHANGED <<wait, pc>>
                   ELSE \E res \in [pending -> BOOLEAN] :
                          /\ engine_orders' = dispatched(st.orders, res)
                          /\ n_place' =
                               [i \in DOMAIN st.orders |->
                                  (IF i \in DOMAIN n_place THEN n_place[i] ELSE 0)
                                  + (IF i \in pending THEN 1 ELSE 0)]
                          /\ wait' = [pending_ids |->
                                        {i \in DOMAIN st.orders :
                                           dispatched(st.orders, res)[i].status = SUBMITTED},
                                      timeout_cnt |-> 0, outcome |-> "waiting"]
                          /\ pc' = [pc EXCEPT !["strategy"] = "poll"]
                          /\ lastOp' = Op("rebalance", NoOrder, "done")
  /\ UNCHANGED <<trader_orders, snapshot, history, ledger_ops, cur, lock, driver>>

NextRebalance ==
  \/ Rebalance
  \/ WaitPoll
  \/ WaitSleep

SpecRebalance == InitRebalance /\ [][NextRebalance]_vars

\* ------------------------------------------------------- snapshots
\* positions with the price they are marked at
SnapshotPositions ==
  UNION {[held -> {[total_volume |-> 2, available_volume |-> 2, cur_price |-> 1],
                   [total_volume |-> 3, available_volume |-> 1, cur_price |-> 2]}] :
           held \in SUBSET {"A", "B"}}

\* the snapshot directory: absent, empty, or holding a document written by
\* this or by another version of the program
SnapshotFiles ==
  {[dir_exists |-> d, exists |-> FALSE, version |-> SNAPSHOT_VERSION,
    available_cash |-> 0, total_cash |-> 0, positions |-> Empty] : d \in BOOLEAN}
  \cup
  {[dir_exists |-> TRUE, exists |-> TRUE, version |-> v,
    available_cash |-> cash, total_cash |-> cash, positions |-> positions] :
     v \in {SNAPSHOT_VERSION, "0.2"}, cash \in {0, InitialCash},
     positions \in SnapshotPositions}

\* the ledger before the load: fresh, holding positions, or with a BUY reserved
SnapshotLedgers ==
  {[PortfolioInit EXCEPT !.positions = positions] : positions \in SnapshotPositions}
  \cup {freeze_order_locked_asset(PortfolioInit, Order(1, "A", BUY, 1, 2)).portfolio}

InitSnapshot ==
  /\ portfolio \in SnapshotLedgers
  /\ snapshot \in SnapshotFiles
  /\ engine_orders = Empty
  /\ trader_orders = Empty
  /\ n_place = Empty
  /\ next_id = 1
  /\ lastOp = Op("init", NoOrder, "none")
  /\ n_unfreeze = [i \in OrderIds |-> 0]
  /\ n_apply = [i \in OrderIds |-> 0]
  /\ pre = NoCall
  /\ ledger_ops = 0
  /\ pc = [t \in Threads |-> "idle"]
  /\ cur = [t \in Threads |-> NoOrder]
  /\ lock = "free"
  /\ wait = NoWait
  /\ driver = DriverInit

NextSnapshot ==
  \/ LoadSnapshot
  \/ LoadSnapshotPath
  \/ SaveSnapshot

SpecSnapshot == InitSnapshot /\ [][NextSnapshot]_vars

\* ------------------------------------------------ LiveSystem and main()
\* the day in the slots the driver's thresholds cut it into: 0 before 08:55,
\* 1 from 08:55, 2 from 09:00, 3 from 09:30, 4 from 14:55, 5 from 15:00
Clock == 0..5

Phases == <<"pre_market", "on_open", "on_trade", "on_close", "post_market">>

\* _handle_trading_phases: the phases an iteration at this time calls, by
\* their index in Phases
due(d) ==
  IF ~d.is_trading_day THEN {}
  ELSE {i \in 1..5 :
          \/ i = 1 /\ "pre_market" \notin d.done /\ d.clock >= 2
          \/ i = 2 /\ "on_open" \notin d.done /\ d.clock >= 3
          \/ i = 3 /\ d.clock >= 3 /\ d.clock < 5
          \/ i = 4 /\ "on_close" \notin d.done /\ d.clock >= 4
          \/ i = 5 /\ "post_market" \notin d.done /\ d.clock >= 5}

\* _check_date_change: before 08:55 the date is still the day before
adjusted_date(d) == IF d.clock < 1 THEN d.day - 1 ELSE d.day

\* the program is started at any time of the first day
InitDriver ==
  /\ \E start \in WaitStarts :
       /\ portfolio = start.portfolio
       /\ engine_orders = start.engine_orders
       /\ n_place = [i \in DOMAIN start.engine_orders |-> 1]
       /\ next_id = Cardinality(DOMAIN start.engine_orders) + 1
  /\ trader_orders = Empty
  /\ snapshot = NoSnapshot
  /\ lastOp = Op("init", NoOrder, "none")
  /\ n_unfreeze = [i \in OrderIds |-> 0]
  /\ n_apply = [i \in OrderIds |-> 0]
  /\ pre = NoCall
  /\ ledger_ops = 0
  /\ pc = [t \in Threads |-> "idle"]
  /\ cur = [t \in Threads |-> NoOrder]
  /\ lock = "free"
  /\ wait = NoWait
  /\ driver \in {[DriverInit EXCEPT !.clock = c] : c \in Clock}

\* time passes between two iterations of the main loop
Tick ==
  /\ driver.process = "running"
  /\ \/ /\ driver.clock < 5
        /\ driver' = [driver EXCEPT !.clock = @ + 1]
     \/ /\ driver.clock = 5
        /\ driver.day < MaxDays
        /\ driver' = [driver EXCEPT !.clock = 0, !.day = @ + 1]
  /\ UNCHANGED <<portfolio, engine_orders, trader_orders, next_id, snapshot, lastOp,
                 history, n_place, ledgerOnly, threadOnly, wait>>

\* one iteration of main()'s while loop: system.run() -> _loop() ->
\* _handle_trading_phases() and _check_date_change(). A phase either
\* completes and sets its flag, or raises: _loop wraps the exception, run()
\* and main() re-raise it, and main() ends the process with sys.exit(255).
MainLoop ==
  /\ driver.process = "running"
  /\ \E fault \in due(driver) \cup {0}, trading \in BOOLEAN :
       IF fault # 0
       THEN /\ driver' = [driver EXCEPT
                            !.done = @ \cup {Phases[i] : i \in {j \in due(driver) : j < fault}},
                            !.process = "exited"]
            /\ lastOp' = Op("main_loop", NoOrder, "fault")
            /\ UNCHANGED <<portfolio, engine_orders, trader_orders, n_place>>
       ELSE IF adjusted_date(driver) # driver.current_date
       THEN /\ driver' = [driver EXCEPT !.current_date = adjusted_date(driver),
                                        !.done = {},
                                        !.is_trading_day = trading]
            /\ on_date_change
            /\ lastOp' = Op("main_loop", NoOrder, "date change")
       ELSE /\ driver' = [driver EXCEPT !.done = @ \cup {Phases[i] : i \in due(driver)}]
            /\ lastOp' = Op("main_loop", NoOrder, "none")
            /\ UNCHANGED <<portfolio, engine_orders, trader_orders, n_place>>
  /\ UNCHANGED <<next_id, snapshot, history, ledgerOnly, threadOnly, wait>>

NextDriver ==
  \/ MainLoop
  \/ Tick

SpecDriver == InitDriver /\ [][NextDriver]_vars

\* ------------------------------------------- the ledger called directly
\* PortfolioManager's operations are public: SpecLedger calls them one at a
\* time with any order, from a portfolio a session can start with.
StartPortfolios ==
  {load_snapshot(PortfolioInit, StartSnapshot),
   [PortfolioInit EXCEPT !.positions =
      [s \in Symbols |-> [total_volume |-> 2, available_volume |-> 1]]]}

LedgerOrders ==
  {Order(id, symbol, direction, price, volume) :
     id \in OrderIds, symbol \in Symbols, direction \in {BUY, SELL},
     price \in Prices, volume \in Volumes}

InitLedger ==
  /\ portfolio \in StartPortfolios
  /\ engine_orders = Empty
  /\ trader_orders = Empty
  /\ next_id = 1
  /\ snapshot = NoSnapshot
  /\ lastOp = Op("init", NoOrder, "none")
  /\ n_unfreeze = [i \in OrderIds |-> 0]
  /\ n_apply = [i \in OrderIds |-> 0]
  /\ n_place = Empty
  /\ pre = NoCall
  /\ ledger_ops = 0
  /\ pc = [t \in Threads |-> "idle"]
  /\ cur = [t \in Threads |-> NoOrder]
  /\ lock = "free"
  /\ wait = NoWait
  /\ driver = DriverInit

LedgerCall(op, order, result) ==
  /\ ledger_ops < MaxLedgerOps
  /\ ledger_ops' = ledger_ops + 1
  /\ pre' = Call(op, order, portfolio, result.raised)
  /\ portfolio' = result.portfolio
  /\ lastOp' = Op(op, order, IF result.raised THEN "raised" ELSE "none")
  /\ UNCHANGED <<systemOnly, n_place, engine_orders, trader_orders, next_id, snapshot, history,
                 threadOnly>>

LedgerFreeze ==
  \E order \in LedgerOrders :
    LedgerCall("freeze", order, freeze_order_locked_asset(portfolio, order))

LedgerUnfreeze ==
  \E order \in LedgerOrders :
    LedgerCall("unfreeze", order, unfreeze_order_locked_asset(portfolio, order))

LedgerApplyTrade ==
  \E order \in LedgerOrders : \E filled_price \in Prices :
    LET filled == update_status_filled(order, FILLED, order.volume, filled_price)
    IN  LedgerCall("apply_trade", filled, apply_trade(portfolio, filled))

LedgerUnfreezeAll ==
  LedgerCall("unfreeze_all", NoOrder,
             [raised |-> FALSE, portfolio |-> unfreeze_all(portfolio)])

NextLedger ==
  \/ LedgerFreeze
  \/ LedgerUnfreeze
  \/ LedgerApplyTrade
  \/ LedgerUnfreezeAll

SpecLedger == InitLedger /\ [][NextLedger]_vars

\* ================================================================= claims
\* the state table of the order status, as the design states it
LegalSuccessors(status) ==
  CASE status = PENDING -> {SUBMITTED, REJECTED}
    [] status = SUBMITTED -> {PARTIAL_FILLED, FILLED, CANCELLED, REJECTED}
    [] status = PARTIAL_FILLED -> {FILLED, CANCELLED}
    [] OTHER -> {}

\* C1: a venue update for an id already in the confirmed map whose status is
\* not a legal successor of the confirmed record's status mutates nothing:
\* confirmed record, local map, journal, cash and positions stay as they were.
C1_IllegalUpdateNoMutation ==
  [][\/ UNCHANGED <<portfolio, engine_orders, trader_orders>>
     \/ \A id \in DOMAIN trader_orders : \A u \in VenueUpdates(id) :
          ~(/\ u.status \notin LegalSuccessors(trader_orders[id].status)
            /\ process_trader_order_callback(u))]_vars

\* an illegal update has been delivered for a confirmed order
C1_Witness ==
  /\ lastOp = Op("callback", NoOrder, "illegal")
  /\ \E id \in DOMAIN trader_orders : trader_orders[id].status = SUBMITTED

\* C2: FILLED, CANCELLED and REJECTED are terminal: a confirmed record in one
\* of them is never changed by any later operation of the same trading day
\* (the day's rollover removes the record).
C2_TerminalIsFinal ==
  [][\A id \in DOMAIN trader_orders :
       (trader_orders[id].status \in TerminalStatus /\ id \in DOMAIN trader_orders')
       => trader_orders'[id] = trader_orders[id]]_vars

\* a FILLED record has been fed a further update, which was dropped
C2_Witness ==
  /\ lastOp = Op("callback", NoOrder, "illegal")
  /\ \E id \in DOMAIN trader_orders : trader_orders[id].status = FILLED

\* the portfolio after delivering update u once, and after delivering it twice
Delivered(u) == callback_result(portfolio, engine_orders, trader_orders, u)
DeliveredTwice(u) ==
  callback_result(Delivered(u).portfolio, engine_orders, Delivered(u).confirmed, u)

\* C3: per order id apply_trade runs at most once and the reservation is
\* released at most once, and delivering an update twice in a row leaves
\* cash, positions and journal as delivering it once does.
C3_LedgerIdempotent ==
  /\ \A id \in OrderIds : n_apply[id] <= 1 /\ n_unfreeze[id] <= 1
  /\ \A id \in OrderIds : \A u \in VenueUpdates(id) :
       /\ DeliveredTwice(u).portfolio = Delivered(u).portfolio
       /\ ~DeliveredTwice(u).applied
       /\ ~DeliveredTwice(u).unfroze

\* a fill was settled and a later update for the same order was dropped
C3_Witness ==
  /\ lastOp = Op("callback", NoOrder, "illegal")
  /\ \E id \in DOMAIN trader_orders :
       /\ trader_orders[id].status = FILLED
       /\ n_apply[id] = 1
       /\ n_unfreeze[id] = 1

\* C5: add_order returns false and mutates nothing when check fails; when
\* check passes it freezes the order's resources, the journal and the local
\* map then hold the order's id, the local record is PENDING, and it returns
\* true.
C5_SubmitChecksThenFreezes ==
  [][lastOp'.op = "add_order" =>
     \A symbol \in Symbols, direction \in {BUY, SELL}, price \in OrderPrices,
        volume \in Volumes :
       LET o == Order(next_id, symbol, direction, price, volume)
       IN  add_order(o) =>
             IF check_trade(portfolio, o)
             THEN /\ lastOp'.ret = "true"
                  /\ o.id \in DOMAIN portfolio'.orders
                  /\ o.id \in DOMAIN engine_orders'
                  /\ engine_orders'[o.id].status = PENDING
                  /\ portfolio'.total_cash = portfolio.total_cash
                  /\ IF direction = BUY
                     THEN /\ portfolio'.available_cash
                               = portfolio.available_cash - total_cost(o)
                          /\ portfolio'.positions = portfolio.positions
                     ELSE /\ portfolio'.available_cash = portfolio.available_cash
                          /\ portfolio'.positions[symbol].available_volume
                               = portfolio.positions[symbol].available_volume - volume
             ELSE /\ lastOp'.ret = "false"
                  /\ UNCHANGED <<portfolio, engine_orders>>]_vars

\* a submission was refused for lack of resources while another is reserved
C5_Witness ==
  /\ lastOp = Op("add_order", NoOrder, "false")
  /\ DOMAIN portfolio.orders # {}
  /\ \E id \in DOMAIN engine_orders : engine_orders[id].status = PENDING

\* C6: a second freeze for an id already in the journal fails with a
\* reservation error and leaves cash, positions and journal as they were.
C6_DuplicateFreezeRefused ==
  [][(pre'.op = "freeze" /\ pre'.order.id \in DOMAIN portfolio.orders)
       => (pre'.raised /\ portfolio' = portfolio)]_vars

\* the freeze that directly follows a freeze of the same order
RoundTrip ==
  /\ pre.op = "freeze"
  /\ ~pre.raised
  /\ pre'.op = "unfreeze"
  /\ pre'.order = pre.order

\* C7: for a BUY order that passes check, freeze followed immediately by
\* unfreeze of the same order restores available_cash, leaves total_cash
\* unchanged throughout and leaves the journal without the id.
C7_BuyFreezeUnfreezeRoundTrip ==
  [][(/\ RoundTrip
      /\ pre.order.direction = BUY
      /\ check_trade(pre.portfolio, pre.order))
       => /\ portfolio'.available_cash = pre.portfolio.available_cash
          /\ portfolio.available_cash
               = pre.portfolio.available_cash - total_cost(pre.order)
          /\ portfolio.total_cash = pre.portfolio.total_cash
          /\ portfolio'.total_cash = pre.portfolio.total_cash
          /\ pre.order.id \notin DOMAIN portfolio'.orders]_vars

\* a checked BUY was frozen and then unfrozen
C7_Witness ==
  /\ pre.op = "unfreeze"
  /\ pre.order.direction = BUY
  /\ pre.order.id \in DOMAIN pre.portfolio.orders
  /\ pre.portfolio.orders[pre.order.id] = pre.order
  /\ pre.portfolio.available_cash >= 0
  /\ pre.portfolio.available_cash < pre.portfolio.total_cash
  /\ portfolio.available_cash = portfolio.total_cash

\* C8: for a SELL order on a held symbol, freeze lowers the position's
\* available_volume by order.volume and leaves total_volume alone, and a
\* following unfreeze of the same order restores available_volume exactly.
C8_SellFreezeUnfreezeRoundTrip ==
  [][/\ (/\ pre'.op = "freeze"
         /\ pre'.order.direction = SELL
         /\ pre'.order.symbol \in DOMAIN portfolio.positions)
        => LET sym == pre'.order.symbol
           IN  /\ ~pre'.raised
               /\ sym \in DOMAIN portfolio'.positions
               /\ portfolio'.positions[sym].available_volume
                    = portfolio.positions[sym].available_volume - pre'.order.volume
               /\ portfolio'.positions[sym].total_volume
                    = portfolio.positions[sym].total_volume
     /\ (/\ RoundTrip
         /\ pre.order.direction = SELL
         /\ pre.order.symbol \in DOMAIN pre.portfolio.positions)
        => LET sym == pre.order.symbol
           IN  /\ sym \in DOMAIN portfolio'.positions
               /\ portfolio'.positions[sym].available_volume
                    = pre.portfolio.positions[sym].available_volume
               /\ portfolio'.positions[sym].total_volume
                    = pre.portfolio.positions[sym].total_volume]_vars

\* a SELL on a held symbol was frozen and then unfrozen
C8_Witness ==
  /\ pre.op = "unfreeze"
  /\ pre.order.direction = SELL
  /\ pre.order.id \in DOMAIN pre.portfolio.orders
  /\ pre.portfolio.orders[pre.order.id] = pre.order
  /\ pre.order.symbol \in DOMAIN portfolio.positions
  /\ portfolio.positions[pre.order.symbol].available_volume
       = pre.portfolio.positions[pre.order.symbol].available_volume + pre.order.volume

\* the cash the BUY reservations of a journal hold
RECURSIVE ReservedCash(_)
ReservedCash(orders) ==
  IF DOMAIN orders = {} THEN 0
  ELSE LET i == CHOOSE x \in DOMAIN orders : TRUE
       IN  (IF orders[i].direction = BUY THEN total_cost(orders[i]) ELSE 0)
           + ReservedCash(Remove(orders, i))

\* the shares of a symbol the SELL reservations of a journal hold
RECURSIVE ReservedVolume(_, _)
ReservedVolume(orders, symbol) ==
  IF DOMAIN orders = {} THEN 0
  ELSE LET i == CHOOSE x \in DOMAIN orders : TRUE
       IN  (IF orders[i].direction = SELL /\ orders[i].symbol = symbol
            THEN orders[i].volume ELSE 0)
           + ReservedVolume(Remove(orders, i), symbol)

\* C9: in every reachable state available_cash <= total_cash and their
\* difference is the summed cash cost of the BUY orders in the journal.
C9_FrozenCashIsReservedCash ==
  /\ portfolio.available_cash <= portfolio.total_cash
  /\ portfolio.total_cash - portfolio.available_cash = ReservedCash(portfolio.orders)

\* the shares of a symbol that are owned but not available
LockedVolume(p, symbol) ==
  IF symbol \in DOMAIN p.positions
  THEN p.positions[symbol].total_volume - p.positions[symbol].available_volume
  ELSE 0

RECURSIVE BoughtVolume(_, _)
BoughtVolume(confirmed, symbol) ==
  IF DOMAIN confirmed = {} THEN 0
  ELSE LET i == CHOOSE x \in DOMAIN confirmed : TRUE
       IN  (IF /\ confirmed[i].direction = BUY
               /\ confirmed[i].symbol = symbol
               /\ confirmed[i].status = FILLED
            THEN confirmed[i].filled_volume ELSE 0)
           + BoughtVolume(Remove(confirmed, i), symbol)

C4_OperationsMutuallyExclusive ==
  ~(pc["strategy"] # "idle" /\ pc["callback"] # "idle")

\* C11: in every reachable state every position in the position map has
\* total_volume > 0 and 0 <= available_volume <= total_volume; settlement,
\* unfreeze, unfreeze_all, position overwrite and snapshot load never leave a
\* position outside that range in the map.
C11_PositionsWellFormed ==
  \A symbol \in DOMAIN portfolio.positions :
    /\ portfolio.positions[symbol].total_volume > 0
    /\ portfolio.positions[symbol].available_volume >= 0
    /\ portfolio.positions[symbol].available_volume
         <= portfolio.positions[symbol].total_volume

\* the SELL orders that can be checked against the ledger
SellOrdersOn(symbol) ==
  {o \in LedgerOrders : o.direction = SELL /\ o.symbol = symbol}

\* C12: apply_trade of a SELL fill that brings the position's total_volume to
\* 0 or below removes the symbol from the position map, so that a later check
\* of a SELL on that symbol returns false.
C12_SoldOutPositionRemoved ==
  [][(/\ pre'.op = "apply_trade"
      /\ pre'.order.direction = SELL
      /\ pre'.order.symbol \in DOMAIN portfolio.positions
      /\ portfolio.positions[pre'.order.symbol].total_volume
           - pre'.order.filled_volume <= 0)
       => /\ pre'.order.symbol \notin DOMAIN portfolio'.positions
          /\ \A o \in SellOrdersOn(pre'.order.symbol) : ~check_trade(portfolio', o)]_vars

\* a SELL fill for the whole of a held position was settled
C12_Witness ==
  /\ pre.op = "apply_trade"
  /\ pre.order.direction = SELL
  /\ pre.order.symbol \in DOMAIN pre.portfolio.positions
  /\ pre.portfolio.positions[pre.order.symbol].total_volume = pre.order.filled_volume
  /\ pre.order.symbol \notin DOMAIN portfolio.positions

\* the position of a symbol, or the empty position when the symbol is not held
PositionOf(p, symbol) ==
  IF symbol \in DOMAIN p.positions THEN p.positions[symbol] ELSE Position

\* the cash a fill costs or, before the fee, brings: filled terms
FilledAmount(order) == order.filled_price * order.filled_volume

C14_UnfreezeAllReleasesEverything ==
  [][pre'.op = "unfreeze_all"
       => /\ portfolio'.orders = Empty
          /\ portfolio'.available_cash = portfolio'.total_cash
          /\ portfolio'.total_cash = portfolio.total_cash
          /\ DOMAIN portfolio'.positions = DOMAIN portfolio.positions
          /\ \A s \in DOMAIN portfolio.positions :
               /\ portfolio'.positions[s].total_volume
                    = portfolio.positions[s].total_volume
               /\ portfolio'.positions[s].available_volume
                    = portfolio.positions[s].total_volume]_vars

\* unfreeze_all ran with a reservation in the journal and shares locked
C14_Witness ==
  /\ pre.op = "unfreeze_all"
  /\ DOMAIN pre.portfolio.orders # {}
  /\ \E s \in DOMAIN pre.portfolio.positions :
       pre.portfolio.positions[s].available_volume
         < pre.portfolio.positions[s].total_volume
  /\ portfolio.orders = Empty

\* C15: a venue update for an id that is in neither the local map nor the
\* confirmed map is dropped, whatever its status: neither map gains an entry
\* and cash, positions and journal stay as they were.
C15_UnknownUpdateDropped ==
  [][\/ UNCHANGED <<portfolio, engine_orders, trader_orders, n_unfreeze, n_apply>>
     \/ \A id \in OrderIds \ (DOMAIN engine_orders \cup DOMAIN trader_orders) :
          \A u \in VenueUpdates(id) : ~process_trader_order_callback(u)]_vars

\* an update for an unknown id arrived while another order was reserved
C15_Witness ==
  /\ lastOp = Op("callback", NoOrder, "unknown")
  /\ DOMAIN portfolio.orders # {}
  /\ DOMAIN engine_orders # {}
  /\ \E id \in OrderIds : id \notin DOMAIN engine_orders \cup DOMAIN trader_orders

\* the venue updates for a local order that the callback accepts: a first
\* sighting, or a legal successor of the confirmed record's status
Accepted(id, u) ==
  /\ id \in DOMAIN engine_orders
  /\ \/ id \notin DOMAIN trader_orders
     \/ u.status \in LegalSuccessors(trader_orders[id].status)

\* C16: a venue update that brings an order to FILLED, as first sighting or
\* as legal transition, releases the local order's reservation at its
\* requested price and volume and then applies the trade at the filled price
\* and volume, in the same call; afterwards the id is not in the journal and
\* cash and position show the fill.
C16_FillReleasesThenSettles ==
  [][(lastOp'.op = "callback" /\ lastOp'.ret \in {"new", "updated"}) =>
     \A id \in DOMAIN engine_orders : \A u \in VenueUpdates(id) :
       (/\ u.status = FILLED
        /\ Accepted(id, u)
        /\ process_trader_order_callback(u))
       => LET local == engine_orders[id]
              sym == local.symbol
              old == PositionOf(portfolio, sym)
              buy_cost == FilledAmount(u) + total_fee(FilledAmount(u), FALSE)
              sell_gain == FilledAmount(u) - total_fee(FilledAmount(u), TRUE)
          IN  /\ trader_orders'[id].status = FILLED
              /\ id \notin DOMAIN portfolio'.orders
              /\ n_unfreeze'[id] = n_unfreeze[id] + 1
              /\ n_apply'[id] = n_apply[id] + 1
              /\ portfolio' =
                   apply_trade(unfreeze_order_locked_asset(portfolio, local).portfolio,
                               u).portfolio
              /\ IF local.direction = BUY
                 THEN /\ portfolio'.total_cash = portfolio.total_cash - buy_cost
                      /\ portfolio'.available_cash
                           = portfolio.available_cash + total_cost(local) - buy_cost
                      /\ portfolio'.positions[sym].total_volume
                           = old.total_volume + u.filled_volume
                 ELSE /\ portfolio'.total_cash = portfolio.total_cash + sell_gain
                      /\ portfolio'.available_cash
                           = portfolio.available_cash + sell_gain
                      /\ IF old.total_volume - u.filled_volume <= 0
                         THEN sym \notin DOMAIN portfolio'.positions
                         ELSE /\ portfolio'.positions[sym].total_volume
                                   = old.total_volume - u.filled_volume
                              /\ portfolio'.positions[sym].available_volume
                                   = old.available_volume + local.volume
                                       - u.filled_volume]_vars

\* a SUBMITTED confirmed order was filled at a price above the requested one
\* and settled, while another order is still reserved
C16_Witness ==
  /\ lastOp = Op("callback", NoOrder, "updated")
  /\ \E id \in DOMAIN trader_orders :
       /\ trader_orders[id].status = FILLED
       /\ trader_orders[id].filled_price > engine_orders[id].price
       /\ n_apply[id] = 1
       /\ n_unfreeze[id] = 1
       /\ id \notin DOMAIN portfolio.orders
  /\ DOMAIN portfolio.orders # {}

\* C17: an accepted venue update with status REJECTED releases the local
\* order's reservation and changes nothing else in the ledger: total_cash,
\* every total_volume and the set of held symbols stay, and apply_trade does
\* not run.
C17_RejectedOnlyReleases ==
  [][(lastOp'.op = "callback" /\ lastOp'.ret \in {"new", "updated"}) =>
     \A id \in DOMAIN engine_orders : \A u \in VenueUpdates(id) :
       (/\ u.status = REJECTED
        /\ Accepted(id, u)
        /\ process_trader_order_callback(u))
       => LET local == engine_orders[id]
          IN  /\ trader_orders'[id].status = REJECTED
              /\ id \notin DOMAIN portfolio'.orders
              /\ id \in DOMAIN portfolio.orders
              /\ n_unfreeze'[id] = n_unfreeze[id] + 1
              /\ n_apply' = n_apply
              /\ portfolio'.total_cash = portfolio.total_cash
              /\ DOMAIN portfolio'.positions = DOMAIN portfolio.positions
              /\ \A s \in DOMAIN portfolio.positions :
                   /\ portfolio'.positions[s].total_volume
                        = portfolio.positions[s].total_volume
                   /\ portfolio'.positions[s].available_volume
                        = portfolio.positions[s].available_volume
                            + (IF local.direction = SELL /\ local.symbol = s
                               THEN local.volume ELSE 0)
              /\ portfolio'.available_cash
                   = portfolio.available_cash
                       + (IF local.direction = BUY THEN total_cost(local) ELSE 0)]_vars

\* a SUBMITTED confirmed order was rejected by the venue and its reservation
\* released, with a position held
C17_Witness ==
  /\ lastOp = Op("callback", NoOrder, "updated")
  /\ \E id \in DOMAIN trader_orders :
       /\ trader_orders[id].status = REJECTED
       /\ n_unfreeze[id] = 1
       /\ n_apply[id] = 0
       /\ id \notin DOMAIN portfolio.orders
  /\ DOMAIN portfolio.positions # {}

\* C18: an accepted venue update with status PARTIAL_FILLED changes only the
\* confirmed record's status, filled_volume and filled_price: no unfreeze,
\* no apply_trade, and cash, positions and journal stay as they were.
C18_PartialFillOnlyRecorded ==
  [][(lastOp'.op = "callback" /\ lastOp'.ret \in {"new", "updated"}) =>
     \A id \in DOMAIN engine_orders : \A u \in VenueUpdates(id) :
       (/\ u.status = PARTIAL_FILLED
        /\ Accepted(id, u)
        /\ process_trader_order_callback(u))
       => /\ portfolio' = portfolio
          /\ n_unfreeze' = n_unfreeze
          /\ n_apply' = n_apply
          /\ engine_orders' = engine_orders
          /\ DOMAIN trader_orders' = DOMAIN trader_orders \cup {id}
          /\ \A i \in DOMAIN trader_orders \ {id} : trader_orders'[i] = trader_orders[i]
          /\ trader_orders'[id] =
               [(IF id \in DOMAIN trader_orders THEN trader_orders[id] ELSE u)
                  EXCEPT !.status = PARTIAL_FILLED,
                         !.filled_volume = u.filled_volume,
                         !.filled_price = u.filled_price]]_vars

\* a SUBMITTED confirmed order was reported partially filled; its reservation
\* is still in the journal
C18_Witness ==
  /\ lastOp = Op("callback", NoOrder, "updated")
  /\ \E id \in DOMAIN trader_orders :
       /\ trader_orders[id].status = PARTIAL_FILLED
       /\ trader_orders[id].filled_volume > 0
       /\ trader_orders[id].filled_volume < trader_orders[id].volume
       /\ id \in DOMAIN portfolio.orders
       /\ n_unfreeze[id] = 0
       /\ n_apply[id] = 0

\* C19: place_orders calls the venue's place-order for exactly the local
\* orders that are PENDING and makes each SUBMITTED when acknowledged and
\* REJECTED otherwise; local orders that are not PENDING are left as they
\* are, and over any number of place_orders calls the place-order call is
\* made at most once per local order.
C19_DispatchOncePerPendingOrder ==
  [][/\ lastOp'.op = "place_orders" =>
          /\ DOMAIN engine_orders' = DOMAIN engine_orders
          /\ \E res \in [PendingIds -> BOOLEAN] :
               \A id \in DOMAIN engine_orders :
                 IF engine_orders[id].status = PENDING
                 THEN /\ n_place'[id] = n_place[id] + 1
                      /\ engine_orders'[id] =
                           [engine_orders[id] EXCEPT
                              !.status = IF res[id] THEN SUBMITTED ELSE REJECTED]
                 ELSE /\ n_place'[id] = n_place[id]
                      /\ engine_orders'[id] = engine_orders[id]
          /\ UNCHANGED <<portfolio, trader_orders>>
     /\ \A id \in DOMAIN engine_orders' : n_place'[id] <= 1]_vars

\* place_orders ran a second time, with one order sent before and refused by
\* the venue and one order new
C19_Witness ==
  /\ lastOp = Op("place_orders", NoOrder, "none")
  /\ \E i, j \in DOMAIN engine_orders :
       /\ i < j
       /\ engine_orders[i].status = REJECTED
       /\ engine_orders[j].status = SUBMITTED
       /\ n_place[i] = 1
       /\ n_place[j] = 1
       /\ j \notin DOMAIN trader_orders
       /\ i \in DOMAIN portfolio.orders

\* the local orders of a set of ids, as a journal
LocalOrders(ids) == [i \in ids |-> engine_orders[i]]

\* C20: cancel_orders calls the venue's cancel for exactly the confirmed
\* orders that are SUBMITTED; each acknowledged one becomes CANCELLED and the
\* local order's reservation is released (id out of the journal, cash or
\* shares credited back); for one not acknowledged, and for every other
\* confirmed order, record and reservation stay as they were.
C20_CancelReleasesAcknowledged ==
  [][lastOp'.op = "cancel_orders" =>
     \E res \in [SubmittedIds -> BOOLEAN] :
       LET acked == {i \in SubmittedIds : res[i]}
       IN  /\ DOMAIN trader_orders' = DOMAIN trader_orders
           /\ \A id \in DOMAIN trader_orders :
                IF id \in acked
                THEN /\ trader_orders'[id].status = CANCELLED
                     /\ id \in DOMAIN portfolio.orders
                     /\ id \notin DOMAIN portfolio'.orders
                     /\ n_unfreeze'[id] = n_unfreeze[id] + 1
                ELSE /\ trader_orders'[id] = trader_orders[id]
                     /\ n_unfreeze'[id] = n_unfreeze[id]
                     /\ id \in DOMAIN portfolio.orders
                          => /\ id \in DOMAIN portfolio'.orders
                             /\ portfolio'.orders[id] = portfolio.orders[id]
           /\ DOMAIN portfolio'.orders = DOMAIN portfolio.orders \ acked
           /\ portfolio'.available_cash
                = portfolio.available_cash + ReservedCash(LocalOrders(acked))
           /\ portfolio'.total_cash = portfolio.total_cash
           /\ DOMAIN portfolio'.positions = DOMAIN portfolio.positions
           /\ \A s \in DOMAIN portfolio.positions :
                /\ portfolio'.positions[s].total_volume
                     = portfolio.positions[s].total_volume
                /\ portfolio'.positions[s].available_volume
                     = portfolio.positions[s].available_volume
                         + ReservedVolume(LocalOrders(acked), s)
           /\ UNCHANGED <<engine_orders, n_apply>>]_vars

\* of two SUBMITTED confirmed orders one cancellation was acknowledged and
\* one was not
C20_Witness ==
  /\ lastOp = Op("cancel_orders", NoOrder, "none")
  /\ \E i, j \in DOMAIN trader_orders :
       /\ trader_orders[i].status = CANCELLED
       /\ n_unfreeze[i] = 1
       /\ i \notin DOMAIN portfolio.orders
       /\ trader_orders[j].status = SUBMITTED
       /\ j \in DOMAIN portfolio.orders
       /\ n_unfreeze[j] = 0

\* every awaited id has a confirmed record in a terminal status
AwaitedAllTerminal ==
  \A i \in wait.pending_ids :
    i \in DOMAIN trader_orders /\ trader_orders[i].status \in TerminalStatus

\* C21: wait_orders_completion returns as soon as a poll sees every local
\* order that was SUBMITTED at the start of the wait confirmed FILLED,
\* CANCELLED or REJECTED, and goes on sleeping otherwise; when that holds at
\* the first poll, or nothing was SUBMITTED, it returns without a sleep; a
\* completed wait never used more than the cap of sleeps.
C21_WaitReturnsWhenAllTerminal ==
  [][/\ (pc["strategy"] = "idle" /\ pc'["strategy"] = "poll")
          => /\ wait'.timeout_cnt = 0
             /\ wait'.pending_ids = {i \in DOMAIN engine_orders :
                                       engine_orders[i].status = SUBMITTED}
     /\ (pc["strategy"] = "poll" /\ pc'["strategy"] # "poll")
          => IF AwaitedAllTerminal
             THEN /\ wait'.outcome = "completed"
                  /\ wait'.timeout_cnt = wait.timeout_cnt
                  /\ pc'["strategy"] = "idle"
             ELSE /\ wait'.outcome = "waiting"
                  /\ pc'["strategy"] = "sleep"
     /\ wait'.outcome = "completed" => wait'.timeout_cnt <= timeout_cap]_vars

\* the wait returned as completed after some sleeps, with an order awaited
C21_Witness ==
  /\ wait.outcome = "completed"
  /\ wait.pending_ids # {}
  /\ wait.timeout_cnt > 0
  /\ wait.timeout_cnt < timeout_cap
  /\ AwaitedAllTerminal

\* C22: when an awaited order never gets a terminal confirmed record, the
\* wait returns normally after exactly the cap of 60 sleeps.
C22_TimeoutAfterExactlyCap ==
  wait.outcome = "timeout" => wait.timeout_cnt = timeout_cap

\* the step is a call of rebalance_portfolio_exposure
RebalanceStep ==
  /\ pc["strategy"] = "idle"
  /\ wait.outcome = "none"
  /\ lastOp'.op = "rebalance"

\* C23: with equity <= 0, or market value / equity <= target, the rebalancer
\* submits nothing, dispatches nothing, does not wait, and leaves the cash,
\* the positions, the journal and both order maps as they were.
C23_RebalanceNoOpAtOrBelowTarget ==
  [][(/\ RebalanceStep
      /\ \/ total_equity(portfolio) <= 0
         \/ total_market_value(portfolio) * ExposureDen
              <= ExposureNum * total_equity(portfolio))
     => UNCHANGED <<portfolio, engine_orders, trader_orders, next_id, n_place,
                    wait, pc>>]_vars

\* a rebalance at exactly the target ratio, with a queued order left undispatched
C23_Witness ==
  /\ lastOp = Op("rebalance", NoOrder, "noop")
  /\ DOMAIN portfolio.positions # {}
  /\ total_market_value(portfolio) * ExposureDen = ExposureNum * total_equity(portfolio)
  /\ \E i \in DOMAIN engine_orders :
       engine_orders[i].status = PENDING /\ n_place[i] = 0
  /\ wait = NoWait

\* the SELL orders a finished rebalance generated
RebalanceOrders == {i \in DOMAIN engine_orders : engine_orders[i].direction = SELL}

RebalanceDone ==
  pre.op = "rebalance" /\ lastOp = Op("rebalance", NoOrder, "done")

\* the allocation of a position in lots, rounded up
AllocatedLots(p, pos) ==
  LET n == excess_mv(p) * market_value(pos)
      d == ExposureDen * total_market_value(p) * pos.cur_price * LotSize
  IN  (n + d - 1) \div d

\* C24: every order of the rebalancer has the volume min(allocation in lots
\* rounded up * 100, available_volume), at least one lot and at most the
\* position's available_volume.
C24_VolumeIsAllocationRoundedUp ==
  RebalanceDone =>
    \A i \in RebalanceOrders :
      LET order == engine_orders[i]
          pos == pre.portfolio.positions[order.symbol]
          allocated == AllocatedLots(pre.portfolio, pos) * LotSize
      IN  /\ order.volume = Max(IF allocated <= pos.available_volume
                                THEN allocated ELSE pos.available_volume, 0)
          /\ order.volume >= LotSize
          /\ order.volume <= pos.available_volume

RECURSIVE SoldValue(_)
SoldValue(ids) ==
  IF ids = {} THEN 0
  ELSE LET i == CHOOSE x \in ids : TRUE
       IN  engine_orders[i].volume * engine_orders[i].price + SoldValue(ids \ {i})

\* no position's volume is capped by available_volume or below one lot
NothingCappedOrSkipped ==
  \A s \in DOMAIN pre.portfolio.positions :
    LET pos == pre.portfolio.positions[s]
        target == target_volume(pre.portfolio, pos)
    IN  target >= LotSize /\ target <= pos.available_volume

LoadFoundFile ==
  /\ lastOp'.op \in {"load_snapshot", "load_snapshot_path"}
  /\ lastOp'.ret \in {"loaded", "loaded, mismatch logged"}

\* C26: a load that succeeds replaces: both cash fields equal the document's
\* and the positions are exactly the document's, whatever was held before;
\* the journal is not part of the document and stays.
C26_LoadReplaces ==
  [][LoadFoundFile
     => /\ snapshot.exists
        /\ portfolio'.available_cash = snapshot.available_cash
        /\ portfolio'.total_cash = snapshot.total_cash
        /\ DOMAIN portfolio'.positions = DOMAIN snapshot.positions
        /\ \A s \in DOMAIN snapshot.positions :
             portfolio'.positions[s] = snapshot.positions[s]
        /\ portfolio'.orders = portfolio.orders]_vars

\* a ledger whose cash (0, never the configured cash) and single position
\* came from the document
C26_Witness ==
  /\ lastOp.op = "load_snapshot"
  /\ lastOp.ret = "loaded"
  /\ "A" \in DOMAIN snapshot.positions
  /\ DOMAIN portfolio.positions = {"A"}
  /\ portfolio.positions["A"] = snapshot.positions["A"]
  /\ portfolio.available_cash = 0
  /\ snapshot.available_cash = 0

\* C27: a load that finds no file, at the given path or as the latest one,
\* raises nothing and leaves the ledger as it was.
C27_MissingFileIsNoError ==
  [][(/\ lastOp'.op \in {"load_snapshot", "load_snapshot_path"}
      /\ lastOp'.ret \notin {"loaded", "loaded, mismatch logged"})
     => /\ lastOp'.ret = "missing"
        /\ portfolio' = portfolio]_vars

\* C28: a document of another version is loaded like one of the current
\* version: nothing is raised, the mismatch is logged, and the cash and the
\* positions become the document's.
C28_VersionMismatchStillLoads ==
  [][(/\ lastOp'.op \in {"load_snapshot", "load_snapshot_path"}
      /\ lastOp'.ret # "missing"
      /\ snapshot.dir_exists /\ snapshot.exists
      /\ snapshot.version # SNAPSHOT_VERSION)
     => /\ lastOp'.ret = "loaded, mismatch logged"
        /\ portfolio'.available_cash = snapshot.available_cash
        /\ portfolio'.total_cash = snapshot.total_cash
        /\ portfolio'.positions = snapshot.positions]_vars

\* a ledger filled from a document of version 0.2
C28_Witness ==
  /\ lastOp = Op("load_snapshot", NoOrder, "loaded, mismatch logged")
  /\ snapshot.version = "0.2"
  /\ DOMAIN snapshot.positions = {"A", "B"}
  /\ portfolio.positions = snapshot.positions
  /\ portfolio.available_cash = snapshot.available_cash
  /\ portfolio.available_cash # InitialCash

\* C29: an exception raised inside a daily phase ends that phase only: the
\* main loop goes on and the process does not exit.
C29_PhaseFaultKeepsProcessRunning ==
  lastOp = Op("main_loop", NoOrder, "fault") => driver.process = "running"

\* C30: unfreeze of a SELL order whose symbol has no position, or of an order
\* whose id is not in the journal, raises nothing: what is missing is
\* skipped (and logged) and the call returns.
C30_UnfreezeOfAbsentNeverRaises ==
  (/\ pre.op = "unfreeze"
   /\ \/ pre.order.direction = SELL /\ pre.order.symbol \notin DOMAIN pre.portfolio.positions
      \/ pre.order.id \notin DOMAIN pre.portfolio.orders)
  => /\ ~pre.raised
     /\ lastOp = Op("unfreeze", pre.order, "none")
     /\ (pre.order.direction = SELL /\ pre.order.symbol \notin DOMAIN pre.portfolio.positions)
          => /\ portfolio.positions = pre.portfolio.positions
             /\ portfolio.available_cash = pre.portfolio.available_cash
     /\ pre.order.id \notin DOMAIN pre.portfolio.orders
          => portfolio.orders = pre.portfolio.orders

\* a SELL order unfrozen with neither its position nor its journal entry there
C30_Witness ==
  /\ pre.op = "unfreeze"
  /\ pre.order.direction = SELL
  /\ pre.order.symbol \notin DOMAIN pre.portfolio.positions
  /\ pre.order.id \notin DOMAIN pre.portfolio.orders
  /\ ~pre.raised
  /\ portfolio = pre.portfolio

\* C31: freeze of a SELL order whose symbol has no position raises and has
\* no effect: the cash, the positions and the journal stay as they were.
C31_FreezeSellWithoutPositionFails ==
  (/\ pre.op = "freeze"
   /\ pre.order.direction = SELL
   /\ pre.order.symbol \notin DOMAIN pre.portfolio.positions)
  => /\ pre.raised
     /\ lastOp = Op("freeze", pre.order, "raised")
     /\ portfolio = pre.portfolio

\* a SELL freeze refused on a ledger that holds another symbol and a reservation
C31_Witness ==
  /\ pre.op = "freeze"
  /\ pre.order.direction = SELL
  /\ pre.order.symbol \notin DOMAIN pre.portfolio.positions
  /\ DOMAIN pre.portfolio.positions # {}
  /\ DOMAIN pre.portfolio.orders # {}
  /\ pre.raised
  /\ portfolio = pre.portfolio

\* C32: an order that dispatch marks REJECTED, because the venue did not
\* acknowledge the place-order call, does not keep its reservation: after the
\* dispatch its id is not in the journal.
C32_DispatchRejectionReleases ==
  [][lastOp'.op = "place_orders"
     => \A i \in DOMAIN engine_orders :
          (engine_orders[i].status = PENDING /\ engine_orders'[i].status = REJECTED)
            => i \notin DOMAIN portfolio'.orders]_vars

\* the rebalancer's orders on one symbol
OrdersOn(s) == {i \in RebalanceOrders : engine_orders[i].symbol = s}

\* the positions whose capped sell volume is at least one lot
Qualifying ==
  {s \in DOMAIN pre.portfolio.positions :
     actual_volume(pre.portfolio, pre.portfolio.positions[s]) >= LotSize}

\* the orders were generated from the larger to the smaller market value
GeneratedInDescendingOrder ==
  \A i, j \in RebalanceOrders :
    i < j => market_value(pre.portfolio.positions[engine_orders[i].symbol])
               >= market_value(pre.portfolio.positions[engine_orders[j].symbol])

\* C33 as stated: every qualifying position gets exactly one MARKET SELL
\* order, none is skipped, and the orders follow descending market value.
C33_EveryQualifyingPositionSold ==
  RebalanceDone =>
    /\ GeneratedInDescendingOrder
    /\ \A s \in DOMAIN pre.portfolio.positions :
         Cardinality(OrdersOn(s)) = IF s \in Qualifying THEN 1 ELSE 0

\* C33 amended: the loop stops once the orders generated so far cover the
\* excess; up to there every qualifying position gets exactly one MARKET
\* SELL order of its capped volume, and a qualifying position without an
\* order comes after orders that already cover the excess.
C33_QualifyingSoldUntilExcessCovered ==
  RebalanceDone =>
    /\ GeneratedInDescendingOrder
    /\ \A i \in RebalanceOrders :
         /\ engine_orders[i].type = "MARKET"
         /\ engine_orders[i].symbol \in Qualifying
         /\ engine_orders[i].volume =
              actual_volume(pre.portfolio,
                            pre.portfolio.positions[engine_orders[i].symbol])
         /\ engine_orders[i].price =
              pre.portfolio.positions[engine_orders[i].symbol].cur_price
    /\ \A s \in DOMAIN pre.portfolio.positions : Cardinality(OrdersOn(s)) <= 1
    /\ \A s \in Qualifying :
         OrdersOn(s) = {}
           => /\ SoldValue(RebalanceOrders) * ExposureDen >= excess_mv(pre.portfolio)
              /\ \A i \in RebalanceOrders :
                   market_value(pre.portfolio.positions[engine_orders[i].symbol])
                     >= market_value(pre.portfolio.positions[s])

\* two qualifying positions of different market value: the larger one sold,
\* the smaller one left without an order
C33_Witness ==
  /\ RebalanceDone
  /\ Cardinality(Qualifying) = 2
  /\ Cardinality(RebalanceOrders) = 1
  /\ \E s \in Qualifying :
       /\ OrdersOn(s) = {}
       /\ \A i \in RebalanceOrders :
            market_value(pre.portfolio.positions[engine_orders[i].symbol])
              > market_value(pre.portfolio.positions[s])

\* C34: when a FILLED callback for a SUBMITTED order is processed while
\* cancel_orders is between its status test and the handling of the cancel
\* answer, the settled order stays FILLED in the confirmed map and its
\* reservation is released once.
C34_FillSurvivesConcurrentCancel ==
  \A i \in DOMAIN trader_orders :
    n_apply[i] > 0 => /\ trader_orders[i].status = FILLED
                      /\ n_unfreeze[i] <= 1

\* C35: an order whose confirmed record is FILLED, CANCELLED or REJECTED, by
\* whatever path it got there, has no reservation left in the journal.
C35_TerminalOrderHoldsNoReservation ==
  \A i \in DOMAIN trader_orders :
    trader_orders[i].status \in TerminalStatus => i \notin DOMAIN portfolio.orders

\* the ids of orders created before the last rollover
RolledOverIds == (1..(next_id - 1)) \ DOMAIN engine_orders

\* C36: after on_date_change both order maps and the journal are empty and
\* nothing is frozen; a venue update that arrives later for an order created
\* before the rollover is dropped as unknown and changes nothing.
C36_RolloverClearsAndLateUpdatesDropped ==
  [][/\ lastOp'.op = "on_date_change"
          => /\ engine_orders' = Empty
             /\ trader_orders' = Empty
             /\ portfolio'.orders = Empty
             /\ portfolio'.available_cash = portfolio'.total_cash
             /\ \A s \in DOMAIN portfolio'.positions :
                  portfolio'.positions[s].available_volume
                    = portfolio'.positions[s].total_volume
     /\ (\E id \in RolledOverIds : \E u \in VenueUpdates(id) :
           process_trader_order_callback(u))
          => /\ lastOp'.ret = "unknown"
             /\ UNCHANGED <<portfolio, engine_orders, trader_orders>>]_vars

\* a late update dropped after a rollover that released the bought shares of
\* the day
C36_Witness ==
  /\ lastOp = Op("callback", NoOrder, "unknown")
  /\ next_id > 1
  /\ engine_orders = Empty
  /\ trader_orders = Empty
  /\ portfolio.orders = Empty
  /\ portfolio.available_cash = portfolio.total_cash
  /\ portfolio.total_cash < InitialCash
  /\ \E s \in DOMAIN portfolio.positions :
       portfolio.positions[s].available_volume = portfolio.positions[s].total_volume

\* C37: available_cash, non-negative at the start, is never negative after
\* any sequence of add_order, place_orders, venue updates and cancel_orders.
C37_AvailableCashNeverNegative == portfolio.available_cash >= 0

\* C38: unfreeze of an order whose id is not in the journal leaves
\* available_cash and every position's available_volume as they were, so a
\* second unfreeze of the same order adds nothing to the first.
C38_UnfreezeIsIdempotent ==
  (pre.op = "unfreeze" /\ pre.order.id \notin DOMAIN pre.portfolio.orders)
  => /\ portfolio.available_cash = pre.portfolio.available_cash
     /\ \A s \in DOMAIN pre.portfolio.positions :
          /\ s \in DOMAIN portfolio.positions
          /\ portfolio.positions[s].available_volume
               = pre.portfolio.positions[s].available_volume

\* C39: every SELL order the rebalancer generates has a volume that is a
\* positive whole multiple of the round lot.
C39_RebalanceVolumesAreWholeLots ==
  RebalanceDone =>
    \A i \in RebalanceOrders :
      /\ engine_orders[i].volume > 0
      /\ engine_orders[i].volume % LotSize = 0

====
